---- MODULE Spec2Model ----
(***************************************************************************)
(* State-machine model of llm-router: the registry built at start-up, the  *)
(* per-credential, per-model usage maps (KeyClient.modelUsage), the        *)
(* selector (App.getClientForGroup / App.getClient), the upstream client   *)
(* wrappers (KeyClient.ChatCompletion, ChatCompletionStream.Recv / Close)  *)
(* and the HTTP handler of /v1/chat/completions (Server.HandleRequest,     *)
(* Server.handleChatCompletions).                                          *)
(***************************************************************************)
EXTENDS Integers, Sequences, FiniteSets, TLC

(***************************************************************************)
(* Bounds of the model.                                                    *)
(***************************************************************************)
\* largest total_tokens an upstream response or chunk reports
MaxTok == 1
\* a counter of the usage maps is not pushed above this value
MaxUsage == 1
\* a stream delivers at most this many chunks before it ends
MaxChunks == 2
\* the serial scenario (SpecSerial): number of requests served, and the
\* total_tokens every one of them returns
MaxSerial == 10
SerialTok == 1

(***************************************************************************)
(* The configuration (config.Config): providers with their API keys in     *)
(* declared order, groups with their model entries in declared order.      *)
(* "zz" is a provider name a group entry uses but no provider declares.    *)
(***************************************************************************)
NoKey == "nil"

CfgProviders ==
    << [Name |-> "p", APIKeys |-> <<"k1", "k2">>] >>

CfgGroups ==
    << [Name |-> "g1",  Models |-> << [Weight |-> 1, Provider |-> "p", Name |-> "ma"] >>],
       [Name |-> "g2",  Models |-> << [Weight |-> 1, Provider |-> "p", Name |-> "ma"],
                                       [Weight |-> 2, Provider |-> "p", Name |-> "mb"] >>],
       [Name |-> "g3",  Models |-> << [Weight |-> 2, Provider |-> "p", Name |-> "ma"],
                                       [Weight |-> 1, Provider |-> "p", Name |-> "mb"] >>],
       [Name |-> "g0a", Models |-> << [Weight |-> 0, Provider |-> "p", Name |-> "ma"],
                                       [Weight |-> 1, Provider |-> "p", Name |-> "mb"] >>],
       [Name |-> "g0b", Models |-> << [Weight |-> 1, Provider |-> "p", Name |-> "ma"],
                                       [Weight |-> 0, Provider |-> "p", Name |-> "mb"] >>],
       [Name |-> "gx",  Models |-> << [Weight |-> 1, Provider |-> "zz", Name |-> "ma"] >>] >>

\* the configured bearer token (Config.APIKey), as a sequence of characters
CfgAPIKey == <<"t", "k">>

SeqRange(s) == { s[i] : i \in 1..Len(s) }

Keys == UNION { SeqRange(CfgProviders[i].APIKeys) : i \in 1..Len(CfgProviders) }
GroupNames == { CfgGroups[i].Name : i \in 1..Len(CfgGroups) }
ModelNames == UNION { { CfgGroups[i].Models[j].Name : j \in 1..Len(CfgGroups[i].Models) }
                      : i \in 1..Len(CfgGroups) }

(***************************************************************************)
(* State.                                                                  *)
(*   modelUsage[k]  KeyClient.modelUsage of the credential k: a map from   *)
(*                  model name to token count, written as a function that  *)
(*                  is 0 where the Go map has no key (a Go map reads 0     *)
(*                  there, and nothing reads the size of the map).         *)
(*   mapNil[k]      TRUE when KeyClient.modelUsage of k is the nil map     *)
(*                  (KeyClient built by the struct literal of getClients), *)
(*                  FALSE when NewKeyClient made the map.                  *)
(*   req[r]         the HTTP request handled in slot r (one goroutine).    *)
(*   usageMutex[k]  KeyClient.usageMutex of k (sync.RWMutex): the goroutine *)
(*                  holding the write lock, the goroutines holding a read  *)
(*                  lock.                                                  *)
(*   thr[t]         the goroutine t calling IncrementUsage or Usage        *)
(*                  directly, as the tests of the client package do.       *)
(*   hist           history of those calls, read by the properties only.   *)
(*   gzw            the response passing through compressionMiddleware.    *)
(*   boot           the process from main to App.Run.                      *)
(*   wrapper        a ChatCompletionStream whose Recv is called directly.  *)
(*   sniff          the body reader of a request through the streaming     *)
(*                  sniff of Server.HandleRequest and the read after it.   *)
(*   pooled         gzipWriterPool, its writers, and the responses that    *)
(*                  pass through compressionMiddleware concurrently.       *)
(*   relay          the goroutines relaying streams concurrently.          *)
(***************************************************************************)
VARIABLES modelUsage, mapNil, req, usageMutex, thr, hist, gzw, boot, wrapper,
          sniff, pooled, relay

vars == <<modelUsage, mapNil, req, usageMutex, thr, hist, gzw, boot, wrapper,
          sniff, pooled, relay>>

Reqs == {"r1"}

\* the names the usage maps are indexed by: upstream model names, and the
\* group names clients send in their place
Names == ModelNames \cup GroupNames \cup {"nogroup"}

EmptyMap == [n \in Names |-> 0]

(***************************************************************************)
(* getGroups / getProviders / getClients: the registry.                    *)
(***************************************************************************)
\* app.Groups: the groups in declared order, entries in declared order
getGroups == CfgGroups

\* app.clients: provider name -> KeyClients in declared order
getClients == [ n \in { CfgProviders[i].Name : i \in 1..Len(CfgProviders) } |->
                  LET i == CHOOSE j \in 1..Len(CfgProviders) : CfgProviders[j].Name = n
                  IN  CfgProviders[i].APIKeys ]

(***************************************************************************)
(* KeyClient.Usage / KeyClient.IncrementUsage.                             *)
(***************************************************************************)
\* Usage: the value of the map at model (0 for a missing key and for the nil map)
UsageIn(mu, k, model) == mu[k][model]

Usage(k, model) == UsageIn(modelUsage, k, model)

\* faulty variant of IncrementUsageMap: the counter is set to the tokens of
\* the last response instead of growing by them
IncrementUsageMapAssign(m, model, tokens) ==
    [m EXCEPT ![model] = tokens]

\* modelUsage[model] += tokens; the caller has checked that the map is not nil
IncrementUsageMap(m, model, tokens) ==
    [m EXCEPT ![model] = @ + tokens]

\* IncrementUsage panics on the nil map ("assignment to entry in nil map")
IncrementPanics(k) == mapNil[k]

IncrementUsage(k, model, tokens) ==
    modelUsage' = [modelUsage EXCEPT ![k] = IncrementUsageMap(@, model, tokens)]

(***************************************************************************)
(* App.getClient: the selector.                                            *)
(***************************************************************************)
\* the (entry, credential) pairs in the order the two nested loops visit them
RECURSIVE EnumPairs(_, _)
EnumPairs(models, i) ==
    IF i > Len(models) THEN <<>>
    ELSE LET m == models[i]
             ks == IF m.Provider \in DOMAIN getClients THEN getClients[m.Provider] ELSE <<>>
         IN  [ j \in 1..Len(ks) |-> [entry |-> i, key |-> ks[j]] ] \o EnumPairs(models, i + 1)

NoSelection == [minUsage |-> -1, provider |-> "", model |-> "", key |-> NoKey, entry |-> 0]

\* faulty variant of getClientStep: keeps the first pair, never compares usage
getClientStepFirstPair(mu, models, acc, pr) ==
    LET m == models[pr.entry]
        usage == UsageIn(mu, pr.key, m.Name)
    IN  IF acc.minUsage = -1
        THEN [minUsage |-> usage, provider |-> m.Provider, model |-> m.Name,
              key |-> pr.key, entry |-> pr.entry]
        ELSE acc

\* one iteration of the inner loop body
getClientStep(mu, models, acc, pr) ==
    LET m == models[pr.entry]
        usage == UsageIn(mu, pr.key, m.Name)
    IN  IF acc.minUsage = -1 \/ usage < acc.minUsage
        THEN [minUsage |-> usage, provider |-> m.Provider, model |-> m.Name,
              key |-> pr.key, entry |-> pr.entry]
        ELSE acc

RECURSIVE getClientLoop(_, _, _, _, _)
getClientLoop(mu, models, pairs, i, acc) ==
    IF i > Len(pairs) THEN acc
    ELSE getClientLoop(mu, models, pairs, i + 1, getClientStep(mu, models, acc, pairs[i]))

getClient(mu, models) ==
    getClientLoop(mu, models, EnumPairs(models, 1), 1, NoSelection)

(***************************************************************************)
(* App.getClientForGroup.                                                  *)
(***************************************************************************)
GroupModels(groupName) ==
    IF \E i \in 1..Len(getGroups) : getGroups[i].Name = groupName
    THEN LET i == CHOOSE j \in 1..Len(getGroups) :
                     /\ getGroups[j].Name = groupName
                     /\ \A l \in 1..(j - 1) : getGroups[l].Name # groupName
         IN  getGroups[i].Models
    ELSE <<>>

\* faulty variant of getClientForGroup: an unknown name falls back to the
\* first configured group
getClientForGroupFallback(mu, groupName) ==
    LET models == IF Len(GroupModels(groupName)) = 0 THEN getGroups[1].Models
                  ELSE GroupModels(groupName)
        s == getClient(mu, models)
    IN  [err |-> FALSE, errText |-> <<>>, provider |-> s.provider, model |-> s.model,
         key |-> s.key, entry |-> s.entry]

\* errText is err.Error(): fmt.Errorf("no models found for group: %s", groupName)
getClientForGroup(mu, groupName) ==
    LET models == GroupModels(groupName)
    IN  IF Len(models) = 0
        THEN [err |-> TRUE, errText |-> <<"no models found for group: ", groupName>>,
              provider |-> "", model |-> "", key |-> NoKey, entry |-> 0]
        ELSE LET s == getClient(mu, models)
             IN  [err |-> FALSE, errText |-> <<>>, provider |-> s.provider,
                  model |-> s.model, key |-> s.key, entry |-> s.entry]

(***************************************************************************)
(* The HTTP request as the handler sees it.                                *)
(***************************************************************************)
\* "Bearer " is one symbol of the header, the token follows character by character
Bearer == <<"Bearer ">>

AuthHeaders ==
    { <<>>,                                   \* no Authorization header
      Bearer \o CfgAPIKey,                    \* the exact header
      Bearer \o <<"t", "x">>,                 \* wrong token, same length
      Bearer \o <<"t">>,                      \* a prefix of the exact header
      Bearer \o CfgAPIKey \o <<"x">>,         \* the exact header and more
      CfgAPIKey,                              \* the token without the scheme
      <<"bearer ">> \o CfgAPIKey }            \* another spelling of the scheme

Methods == {"POST", "OPTIONS", "GET"}

\* names a client may send in the "model" field
ReqGroups == {"g1", "g2", "gx", "nogroup"}

\* the request body, by what the two json.Unmarshal calls and the type
\* assertions of handleChatCompletions make of it
Bodies ==
    { [json |-> FALSE, hasModel |-> FALSE, model |-> "", stream |-> FALSE, typed |-> FALSE,
       messages |-> "m1", extra |-> ""],
      [json |-> TRUE, hasModel |-> FALSE, model |-> "", stream |-> FALSE, typed |-> TRUE,
       messages |-> "m1", extra |-> ""] }
    \cup { [json |-> TRUE, hasModel |-> TRUE, model |-> "g1", stream |-> s, typed |-> FALSE,
            messages |-> "m1", extra |-> ""]
           : s \in BOOLEAN }
    \cup { [json |-> TRUE, hasModel |-> TRUE, model |-> g, stream |-> s, typed |-> TRUE,
            messages |-> "m1", extra |-> ""]
           : g \in ReqGroups, s \in BOOLEAN }

\* well-formed bodies that differ in the other fields: `messages`, which
\* openai.ChatCompletionRequest declares, and a field it does not declare
\* ("" when the body does not carry it)
ForwardBodies ==
    { [json |-> TRUE, hasModel |-> TRUE, model |-> g, stream |-> s, typed |-> TRUE,
       messages |-> m, extra |-> x]
      : g \in ReqGroups, s \in BOOLEAN, m \in {"m1", "m2"}, x \in {"", "x1"} }

\* the JSON object the client sent
BodyJSON(body) ==
    [model |-> body.model, stream |-> body.stream, messages |-> body.messages,
     extra |-> body.extra]

NoJSON == [model |-> "", stream |-> FALSE, messages |-> "", extra |-> ""]

\* json.Unmarshal(body, &req) into openai.ChatCompletionRequest: the fields
\* the struct declares are set, any other key of the object is skipped
Unmarshal(body) ==
    [Model |-> body.model, Stream |-> body.stream, Messages |-> body.messages]

\* the JSON object the client library sends for a ChatCompletionRequest
RequestJSON(creq) ==
    [model |-> creq.Model, stream |-> creq.Stream, messages |-> creq.Messages,
     extra |-> ""]

\* faulty variant of ConstantTimeCompare: 1 as soon as x is a prefix of y
ComparePrefix(x, y) ==
    IF Len(x) > Len(y) THEN 0
    ELSE IF \A i \in 1..Len(x) : x[i] = y[i] THEN 1 ELSE 0

\* crypto/subtle.ConstantTimeCompare: 1 iff same length and same bytes
ConstantTimeCompare(x, y) ==
    IF Len(x) # Len(y) THEN 0
    ELSE IF \A i \in 1..Len(x) : x[i] = y[i] THEN 1 ELSE 0

\* the mark of the `data: [DONE]` event in the list of emitted events;
\* the event of the n-th chunk received is n
DONE == 0

\* the three patterns Server.ListenAndServe registers
PathCompletions == "/v1/chat/completions"
PathModels == "/v1/models"
PathHealth == "/health"

\* err.Error() of a failed upstream call
UpstreamErrText == <<"upstream error">>

\* the prefix handleChatCompletions puts before err.Error() in the 500 body
ErrPrefix(nextPc) ==
    IF nextPc = "opening" THEN <<"Error handling streaming request: ">>
    ELSE <<"Error handling request: ">>

IdleReq ==
    [ pc       |-> "idle",    \* idle | calling | opening | relaying | done
      path     |-> "",        \* r.URL.Path
      method   |-> "",        \* r.Method
      auth     |-> <<>>,      \* the Authorization header
      status   |-> 0,         \* status code written by the handler, 0: none
      body     |-> <<>>,      \* text of the response body (errors, "OK", the list)
      group    |-> "",        \* the "model" field the client sent
      stream   |-> FALSE,     \* the streaming branch was taken
      flusher  |-> FALSE,     \* the response writer implements http.Flusher
      provider |-> "",        \* the triple getClientForGroup returned
      model    |-> "",
      key      |-> NoKey,
      fwdModel |-> "",        \* req.Model of the request sent upstream
      sent     |-> NoJSON,    \* the JSON object the client sent
      fwd      |-> NoJSON,    \* the JSON object sent upstream
      tokens   |-> 0,         \* total_tokens of the buffered upstream response
      opened   |-> FALSE,     \* ChatCompletionStream returned a stream
      sse      |-> FALSE,     \* the SSE headers were set on the response
      usage    |-> 0,         \* ChatCompletionStream.usage
      recvd    |-> 0,         \* chunks received from the upstream stream
      events   |-> <<>>,      \* SSE events written to the client, in order
      flushes  |-> 0,         \* calls of flusher.Flush
      closed   |-> 0,         \* calls of ChatCompletionStream.Close
      wfail    |-> FALSE,     \* a write to the client's ResponseWriter failed
      end      |-> "",        \* how the handler ended
      \* history of the request, read by the properties only
      resolved |-> 0,         \* calls of getClientForGroup
      calls    |-> 0,         \* upstream calls started
      contrib  |-> 0,         \* tokens this request added to the usage maps
      repT     |-> -1,        \* -1: no chunk carried usage; T: all usage
                              \* reports said T; -2: they differed
      finUsage |-> FALSE,     \* some finish chunk carried usage
      afterFail |-> 0 ]       \* calls of stream.Recv made after a failed write

\* the handler returns (or panics): the request is over
Return(q, status, end) ==
    [q EXCEPT !.pc = "done", !.status = status, !.end = end]

\* faulty variant of Close: the handler returns without closing the stream
CloseMissing(q) == q

\* ChatCompletionStream.Close, run by `defer stream.Close()`
Close(q) == [q EXCEPT !.closed = @ + 1]

(***************************************************************************)
(* Server.HandleRequest with Server.handleChatCompletions and              *)
(* App.HandleRequest / App.HandleStreamRequest, up to the upstream call.   *)
(***************************************************************************)
\* faulty variant of AppHandle: req.Model keeps the group name the client sent
AppHandleNoRewrite(q, body, nextPc) ==
    LET sel == getClientForGroup(modelUsage, body.model)
        q1  == [q EXCEPT !.resolved = @ + 1, !.sent = BodyJSON(body)]
    IN  IF sel.err
        THEN [q1 EXCEPT !.pc = "done", !.status = 500, !.end = "nogroup",
                        !.body = ErrPrefix(nextPc) \o sel.errText]
        ELSE LET q2 == [q1 EXCEPT !.provider = sel.provider, !.model = sel.model,
                                  !.key = sel.key, !.fwdModel = body.model,
                                  !.fwd = RequestJSON(Unmarshal(body))]
             IN  IF sel.key = NoKey
                 THEN [q2 EXCEPT !.pc = "done", !.status = 0, !.end = "panic"]
                 ELSE [q2 EXCEPT !.pc = nextPc, !.calls = @ + 1]

\* App.HandleRequest / App.HandleStreamRequest up to the upstream call: resolve
\* the group, rewrite req.Model, start the call on the selected KeyClient
AppHandle(q, body, nextPc) ==
    LET sel == getClientForGroup(modelUsage, body.model)
        q1  == [q EXCEPT !.resolved = @ + 1, !.sent = BodyJSON(body)]
    IN  IF sel.err
        THEN \* http.Error(w, "Error handling request: "+err.Error(), 500)
             [Return(q1, 500, "nogroup") EXCEPT !.body = ErrPrefix(nextPc) \o sel.errText]
        ELSE LET q2 == [q1 EXCEPT !.provider = sel.provider, !.model = sel.model,
                                  !.key = sel.key, !.fwdModel = sel.model,
                                  !.fwd = RequestJSON([Unmarshal(body) EXCEPT
                                                          !.Model = sel.model])]
             IN  IF sel.key = NoKey
                 THEN \* method call through a nil *KeyClient: nil dereference
                      Return(q2, 0, "panic")
                 ELSE [q2 EXCEPT !.pc = nextPc, !.calls = @ + 1]

handleChatCompletions(q, body, flusher) ==
    IF ~body.json THEN Return(q, 500, "badjson")
    ELSE IF ~body.hasModel THEN Return(q, 400, "nomodel")
    ELSE IF body.stream
         THEN IF ~body.typed THEN Return(q, 400, "badrequest")
              ELSE AppHandle([q EXCEPT !.group = body.model, !.stream = TRUE,
                                       !.flusher = flusher],
                             body, "opening")
         ELSE IF ~body.typed THEN Return(q, 400, "badrequest")
              ELSE AppHandle([q EXCEPT !.group = body.model], body, "calling")

HandleRequestResult(q, method, auth, body, flusher) ==
    LET q0 == [q EXCEPT !.path = PathCompletions, !.method = method, !.auth = auth]
        expectedAuthHeader == Bearer \o CfgAPIKey
    IN  IF method = "OPTIONS" THEN Return(q0, 204, "options")
        ELSE IF ConstantTimeCompare(auth, expectedAuthHeader) # 1
             THEN Return(q0, 401, "unauthorized")
        ELSE IF method = "POST" THEN handleChatCompletions(q0, body, flusher)
        ELSE Return(q0, 404, "notfound")

\* faulty variant of HandleRequest: the selection books one token on the pair
\* it selects
HandleRequestReserve(r, method, auth, body, flusher) ==
    LET q == HandleRequestResult(req[r], method, auth, body, flusher) IN
    /\ req[r].pc = "idle"
    /\ req' = [req EXCEPT ![r] = q]
    /\ IF q.pc \in {"calling", "opening"} /\ ~IncrementPanics(q.key)
       THEN IncrementUsage(q.key, q.model, 1)
       ELSE UNCHANGED modelUsage
    /\ UNCHANGED <<mapNil, usageMutex, thr, hist, gzw, boot, wrapper, sniff, pooled, relay>>

HandleRequest(r, method, auth, body, flusher) ==
    /\ req[r].pc = "idle"
    /\ req' = [req EXCEPT ![r] = HandleRequestResult(req[r], method, auth, body, flusher)]
    /\ UNCHANGED <<modelUsage, mapNil, usageMutex, thr, hist, gzw, boot, wrapper, sniff, pooled, relay>>

(***************************************************************************)
(* The two other patterns of Server.ListenAndServe: /v1/models served by   *)
(* Server.HandleModelsRequest, /health by a function literal.              *)
(***************************************************************************)
HandleModelsRequest(r, method, auth) ==
    LET q0 == [req[r] EXCEPT !.path = PathModels, !.method = method, !.auth = auth] IN
    /\ req[r].pc = "idle"
    /\ req' = [req EXCEPT ![r] =
                 IF method # "GET"
                 THEN [Return(q0, 405, "notallowed") EXCEPT !.body = <<"method not allowed">>]
                 ELSE [Return(q0, 200, "models") EXCEPT !.body = <<"list">>]]
    /\ UNCHANGED <<modelUsage, mapNil, usageMutex, thr, hist, gzw, boot, wrapper, sniff, pooled, relay>>

HandleHealth(r, method, auth) ==
    LET q0 == [req[r] EXCEPT !.path = PathHealth, !.method = method, !.auth = auth] IN
    /\ req[r].pc = "idle"
    /\ req' = [req EXCEPT ![r] = [Return(q0, 200, "health") EXCEPT !.body = <<"OK">>]]
    /\ UNCHANGED <<modelUsage, mapNil, usageMutex, thr, hist, gzw, boot, wrapper, sniff, pooled, relay>>

(***************************************************************************)
(* KeyClient.ChatCompletion returning into App.HandleRequest and the rest  *)
(* of handleChatCompletions (buffered path).                               *)
(***************************************************************************)
\* faulty variant of ChatCompletion: a failed upstream call is tried once more
ChatCompletionRetryOnce(r, ok, T, marshalOK) ==
    LET q == req[r] IN
    /\ q.pc = "calling"
    /\ IF ~ok
       THEN /\ req' = [req EXCEPT ![r] =
                         [Return([q EXCEPT !.calls = @ + 1], 500, "upstream")
                            EXCEPT !.body = ErrPrefix("calling") \o UpstreamErrText]]
            /\ UNCHANGED <<modelUsage, mapNil, usageMutex, thr, hist, gzw, boot, wrapper, sniff, pooled, relay>>
       ELSE IF IncrementPanics(q.key)
       THEN /\ req' = [req EXCEPT ![r] = Return([q EXCEPT !.tokens = T], 0, "panic")]
            /\ UNCHANGED <<modelUsage, mapNil, usageMutex, thr, hist, gzw, boot, wrapper, sniff, pooled, relay>>
       ELSE /\ IncrementUsage(q.key, q.fwdModel, T)
            /\ req' = [req EXCEPT ![r] =
                         Return([q EXCEPT !.tokens = T, !.contrib = @ + T],
                                IF marshalOK THEN 200 ELSE 500,
                                IF marshalOK THEN "ok" ELSE "marshal")]
            /\ UNCHANGED <<mapNil, usageMutex, thr, hist, gzw, boot, wrapper, sniff, pooled, relay>>

ChatCompletion(r, ok, T, marshalOK) ==
    LET q == req[r] IN
    /\ q.pc = "calling"
    /\ IF ~ok
       THEN \* CreateChatCompletion failed: the error goes back through
            \* App.HandleRequest to http.Error(w, "Error handling request: "+
            \* err.Error(), 500); no usage counted
            /\ req' = [req EXCEPT ![r] =
                         [Return(q, 500, "upstream")
                            EXCEPT !.body = ErrPrefix("calling") \o UpstreamErrText]]
            /\ UNCHANGED <<modelUsage, mapNil, usageMutex, thr, hist, gzw, boot, wrapper, sniff, pooled, relay>>
       ELSE IF IncrementPanics(q.key)
       THEN /\ req' = [req EXCEPT ![r] = Return([q EXCEPT !.tokens = T], 0, "panic")]
            /\ UNCHANGED <<modelUsage, mapNil, usageMutex, thr, hist, gzw, boot, wrapper, sniff, pooled, relay>>
       ELSE /\ IncrementUsage(q.key, q.fwdModel, T)
            /\ req' = [req EXCEPT ![r] =
                         Return([q EXCEPT !.tokens = T, !.contrib = @ + T],
                                IF marshalOK THEN 200 ELSE 500,
                                IF marshalOK THEN "ok" ELSE "marshal")]
            /\ UNCHANGED <<mapNil, usageMutex, thr, hist, gzw, boot, wrapper, sniff, pooled, relay>>

(***************************************************************************)
(* A direct call of KeyClient.IncrementUsage (as the tests make), also the *)
(* effect on the usage maps of requests handled by other goroutines.       *)
(***************************************************************************)
Increment(k, model, tokens) ==
    /\ ~IncrementPanics(k)
    /\ IncrementUsage(k, model, tokens)
    /\ UNCHANGED <<mapNil, req, usageMutex, thr, hist, gzw, boot, wrapper, sniff, pooled, relay>>

\* the connection slot takes the next request
Reset(r) ==
    /\ req[r].pc = "done"
    /\ req' = [req EXCEPT ![r] = IdleReq]
    /\ UNCHANGED <<modelUsage, mapNil, usageMutex, thr, hist, gzw, boot, wrapper, sniff, pooled, relay>>

(***************************************************************************)
(* KeyClient.ChatCompletionStream returning into App.HandleStreamRequest   *)
(* and handleChatCompletions up to the relay loop.                         *)
(***************************************************************************)
\* faulty variant of ChatCompletionStream: the SSE headers are set before the
\* upstream stream is open
ChatCompletionStreamHeadersFirst(r, ok) ==
    LET q == [req[r] EXCEPT !.sse = TRUE] IN
    /\ q.pc = "opening"
    /\ req' = [req EXCEPT ![r] =
                 IF ~ok
                 THEN [Return(q, 500, "upstream")
                         EXCEPT !.body = ErrPrefix("opening") \o UpstreamErrText]
                 ELSE LET q1 == [q EXCEPT !.opened = TRUE, !.usage = 0]
                      IN  IF ~q.flusher
                          THEN Close(Return(q1, 500, "noflush"))
                          ELSE [q1 EXCEPT !.pc = "relaying"]]
    /\ UNCHANGED <<modelUsage, mapNil, usageMutex, thr, hist, gzw, boot, wrapper, sniff, pooled, relay>>

ChatCompletionStream(r, ok) ==
    LET q == req[r] IN
    /\ q.pc = "opening"
    /\ req' = [req EXCEPT ![r] =
                 IF ~ok
                 THEN \* CreateChatCompletionStream failed: 500, nothing to close
                      [Return(q, 500, "upstream")
                         EXCEPT !.body = ErrPrefix("opening") \o UpstreamErrText]
                 ELSE \* the stream is open: `defer stream.Close()`, then the
                      \* SSE headers
                      LET q1 == [q EXCEPT !.opened = TRUE, !.usage = 0, !.sse = TRUE]
                      IN  IF ~q.flusher
                          THEN \* "Streaming unsupported"; the deferred Close runs
                               Close(Return(q1, 500, "noflush"))
                          ELSE [q1 EXCEPT !.pc = "relaying"]]
    /\ UNCHANGED <<modelUsage, mapNil, usageMutex, thr, hist, gzw, boot, wrapper, sniff, pooled, relay>>

(***************************************************************************)
(* One iteration of the relay loop: ChatCompletionStream.Recv, then the    *)
(* marshalling, the writes and the flush of handleChatCompletions.         *)
(***************************************************************************)
\* what the upstream stream can deliver: a chunk, io.EOF or another error.
\* A chunk has no choice or one; usage is absent (hasUsage = FALSE) or
\* carries total_tokens.
ChunkShapes ==
    { [nChoices |-> 0, finishReason |-> "", content |-> "", reasoning |-> ""] }
    \cup { [nChoices |-> 1, finishReason |-> f, content |-> c, reasoning |-> rc]
           : f \in {"", "stop"}, c \in {"", "x"}, rc \in {"", "y"} }

Chunks ==
    { [nChoices |-> sh.nChoices, finishReason |-> sh.finishReason, content |-> sh.content,
       reasoning |-> sh.reasoning, hasUsage |-> FALSE, total |-> 0] : sh \in ChunkShapes }
    \cup { [nChoices |-> sh.nChoices, finishReason |-> sh.finishReason, content |-> sh.content,
            reasoning |-> sh.reasoning, hasUsage |-> TRUE, total |-> t]
           : sh \in ChunkShapes, t \in 0..MaxTok }

\* the three assignments to `finish` of Recv (|| does not evaluate its right
\* operand once finish is true, so Choices[0] is read only when it exists)
IsFinish(ch) ==
    LET finish1 == (ch.nChoices = 0)
        finish2 == finish1 \/ ch.finishReason # ""
        finish3 == finish2 \/ (ch.content = "" /\ ch.reasoning = "")
    IN  finish3

\* faulty variant of RecvDelta: usage is counted on every chunk that has it
RecvDeltaAnyChunk(usage, ch) ==
    IF ch.hasUsage
    THEN LET delta == ch.total - usage IN IF delta > 0 THEN delta ELSE 0
    ELSE 0

\* the tokens Recv adds for a chunk, given ChatCompletionStream.usage
RecvDelta(usage, ch) ==
    IF IsFinish(ch) /\ ch.hasUsage
    THEN LET delta == ch.total - usage IN IF delta > 0 THEN delta ELSE 0
    ELSE 0

\* the loop calls stream.Recv()
RecvCall(q) == [q EXCEPT !.afterFail = IF q.wfail THEN @ + 1 ELSE @]

\* the history fields after a chunk
Seen(q, ch) ==
    [q EXCEPT !.repT = IF ~ch.hasUsage THEN @
                       ELSE IF @ = -1 \/ @ = ch.total THEN ch.total ELSE -2,
              !.finUsage = @ \/ (IsFinish(ch) /\ ch.hasUsage)]

\* faulty variant of RecvEOF: the handler returns at io.EOF without [DONE]
RecvEOFNoDone(r) ==
    LET q == RecvCall(req[r]) IN
    /\ q.pc = "relaying"
    /\ req' = [req EXCEPT ![r] = Close(Return(q, q.status, "eof"))]
    /\ UNCHANGED <<modelUsage, mapNil, usageMutex, thr, hist, gzw, boot, wrapper, sniff, pooled, relay>>

RecvEOF(r) ==
    LET q == RecvCall(req[r]) IN
    /\ q.pc = "relaying"
    \* io.EOF: write `data: [DONE]`, flush, return; the deferred Close runs
    /\ req' = [req EXCEPT ![r] =
                 Close(Return([q EXCEPT !.events = IF q.wfail THEN @ ELSE Append(@, DONE),
                                        !.flushes = @ + 1],
                              200, "eof"))]
    /\ UNCHANGED <<modelUsage, mapNil, usageMutex, thr, hist, gzw, boot, wrapper, sniff, pooled, relay>>

\* faulty variant of RecvError: the handler writes [DONE] on any Recv error
RecvErrorDone(r) ==
    LET q == RecvCall(req[r]) IN
    /\ q.pc = "relaying"
    /\ req' = [req EXCEPT ![r] =
                 Close(Return([q EXCEPT !.events = Append(@, DONE), !.flushes = @ + 1],
                              q.status, "recverr"))]
    /\ UNCHANGED <<modelUsage, mapNil, usageMutex, thr, hist, gzw, boot, wrapper, sniff, pooled, relay>>

RecvError(r) ==
    LET q == RecvCall(req[r]) IN
    /\ q.pc = "relaying"
    \* any other error: log and return; the deferred Close runs
    /\ req' = [req EXCEPT ![r] = Close(Return(q, q.status, "recverr"))]
    /\ UNCHANGED <<modelUsage, mapNil, usageMutex, thr, hist, gzw, boot, wrapper, sniff, pooled, relay>>

\* faulty variant of RecvChunk: the event is written but not flushed
RecvChunkNoFlush(r, ch, marshalOK, writeOK) ==
    LET q     == Seen(RecvCall(req[r]), ch)
        delta == RecvDelta(q.usage, ch)
        q1    == [q EXCEPT !.recvd = @ + 1]
    IN
    /\ q.pc = "relaying"
    /\ IF delta > 0 /\ IncrementPanics(q.key)
       THEN /\ req' = [req EXCEPT ![r] = Close(Return(q1, q.status, "panic"))]
            /\ UNCHANGED <<modelUsage, mapNil, usageMutex, thr, hist, gzw, boot, wrapper, sniff, pooled, relay>>
       ELSE /\ IF delta > 0
               THEN IncrementUsage(q.key, q.fwdModel, delta)
               ELSE UNCHANGED modelUsage
            /\ LET q2 == [q1 EXCEPT !.usage = @ + delta, !.contrib = @ + delta]
               IN  req' = [req EXCEPT ![r] =
                             IF ~marshalOK
                             THEN Close(Return(q2, q.status, "marshal"))
                             ELSE IF ~writeOK \/ q.wfail
                             THEN [q2 EXCEPT !.wfail = TRUE, !.status = 200]
                             ELSE [q2 EXCEPT !.events = Append(@, q2.recvd),
                                             !.status = 200]]
            /\ UNCHANGED <<mapNil, usageMutex, thr, hist, gzw, boot, wrapper, sniff, pooled, relay>>

RecvChunk(r, ch, marshalOK, writeOK) ==
    LET q     == Seen(RecvCall(req[r]), ch)
        delta == RecvDelta(q.usage, ch)
        q1    == [q EXCEPT !.recvd = @ + 1]
    IN
    /\ q.pc = "relaying"
    /\ IF delta > 0 /\ IncrementPanics(q.key)
       THEN \* IncrementUsage panics; the deferred Close runs while unwinding
            /\ req' = [req EXCEPT ![r] = Close(Return(q1, q.status, "panic"))]
            /\ UNCHANGED <<modelUsage, mapNil, usageMutex, thr, hist, gzw, boot, wrapper, sniff, pooled, relay>>
       ELSE /\ IF delta > 0
               THEN IncrementUsage(q.key, q.fwdModel, delta)
               ELSE UNCHANGED modelUsage
            /\ LET q2 == [q1 EXCEPT !.usage = @ + delta, !.contrib = @ + delta]
               IN  req' = [req EXCEPT ![r] =
                             IF ~marshalOK
                             THEN Close(Return(q2, q.status, "marshal"))
                             ELSE IF ~writeOK \/ q.wfail
                             THEN \* a Write returns an error, which the loop does
                                  \* not look at: it flushes and goes on
                                  [q2 EXCEPT !.wfail = TRUE, !.flushes = @ + 1,
                                             !.status = 200]
                             ELSE \* three writes make the event, then flusher.Flush()
                                  [q2 EXCEPT !.events = Append(@, q2.recvd),
                                             !.flushes = @ + 1, !.status = 200]]
            /\ UNCHANGED <<mapNil, usageMutex, thr, hist, gzw, boot, wrapper, sniff, pooled, relay>>

(***************************************************************************)
(* KeyClient.IncrementUsage and KeyClient.Usage step by step, called by    *)
(* goroutines that run concurrently: the lock, the read and the write of   *)
(* `kc.modelUsage[model] += tokens`, the deferred unlock.                  *)
(***************************************************************************)
\* the goroutines that call IncrementUsage and the one that calls Usage
Writers == {"w1", "w2"}
Readers == {"rd"}
Threads == Writers \cup Readers

NoThread == "none"

UnlockedMutex == [w |-> NoThread, r |-> {}]

IdleThr ==
    [ pc       |-> "idle",   \* idle | lock | load | store | unlock
                             \*      | rlock | read | runlock | done
      op       |-> "",       \* "inc": IncrementUsage, "get": Usage
      key      |-> NoKey,    \* the KeyClient the method is called on
      model    |-> "",
      tokens   |-> 0,
      tmp      |-> 0,        \* the value `+=` read from the map
      ret      |-> 0,        \* the value Usage returns
      panicked |-> FALSE ]   \* the call ended in a panic

\* go func() { kc.IncrementUsage(model, tokens) }()
IncrementUsageCall(t, k, model, tokens) ==
    /\ thr[t].pc = "idle"
    /\ thr' = [thr EXCEPT ![t] = [@ EXCEPT !.pc = "lock", !.op = "inc", !.key = k,
                                           !.model = model, !.tokens = tokens]]
    /\ UNCHANGED <<modelUsage, mapNil, req, usageMutex, hist, gzw, boot, wrapper, sniff, pooled, relay>>

\* faulty variant of UsageMutexLock: the lock excludes nobody
UsageMutexLockNoExclusion(t) ==
    /\ thr[t].pc = "lock"
    /\ usageMutex' = [usageMutex EXCEPT ![thr[t].key].w = t]
    /\ thr' = [thr EXCEPT ![t].pc = "load"]
    /\ UNCHANGED <<modelUsage, mapNil, req, hist, gzw, boot, wrapper, sniff, pooled, relay>>

\* kc.usageMutex.Lock(): waits until no writer and no reader holds the lock
UsageMutexLock(t) ==
    /\ thr[t].pc = "lock"
    /\ usageMutex[thr[t].key] = UnlockedMutex
    /\ usageMutex' = [usageMutex EXCEPT ![thr[t].key].w = t]
    /\ thr' = [thr EXCEPT ![t].pc = "load"]
    /\ UNCHANGED <<modelUsage, mapNil, req, hist, gzw, boot, wrapper, sniff, pooled, relay>>

\* the read of kc.modelUsage[model] that `+=` makes (0 for the nil map)
IncrementUsageLoad(t) ==
    /\ thr[t].pc = "load"
    /\ thr' = [thr EXCEPT ![t] = [@ EXCEPT !.pc = "store",
                                           !.tmp = Usage(thr[t].key, thr[t].model)]]
    /\ UNCHANGED <<modelUsage, mapNil, req, usageMutex, hist, gzw, boot, wrapper, sniff, pooled, relay>>

\* the write of kc.modelUsage[model] that `+=` makes; it panics on the nil map
IncrementUsageStore(t) ==
    LET c == thr[t]
        h == [hist EXCEPT !.asked[c.key][c.model] = @ + c.tokens]
    IN
    /\ c.pc = "store"
    /\ IF IncrementPanics(c.key)
       THEN /\ thr' = [thr EXCEPT ![t] = [@ EXCEPT !.pc = "unlock", !.panicked = TRUE]]
            /\ hist' = h
            /\ UNCHANGED modelUsage
       ELSE /\ modelUsage' = [modelUsage EXCEPT ![c.key][c.model] = c.tmp + c.tokens]
            /\ thr' = [thr EXCEPT ![t].pc = "unlock"]
            /\ hist' = [h EXCEPT !.applied[c.key][c.model] = @ + c.tokens,
                                 !.held[c.key][c.model] = @ \cup {c.tmp + c.tokens}]
    /\ UNCHANGED <<mapNil, req, usageMutex, gzw, boot, wrapper, sniff, pooled, relay>>

\* faulty variant of UsageMutexUnlock: Unlock is not deferred, so a panic of
\* the write leaves the lock held
UsageMutexUnlockOnReturn(t) ==
    /\ thr[t].pc = "unlock"
    /\ usageMutex' = IF thr[t].panicked THEN usageMutex
                     ELSE [usageMutex EXCEPT ![thr[t].key].w = NoThread]
    /\ thr' = [thr EXCEPT ![t].pc = "done"]
    /\ UNCHANGED <<modelUsage, mapNil, req, hist, gzw, boot, wrapper, sniff, pooled, relay>>

\* defer kc.usageMutex.Unlock(): runs when the method returns or panics
UsageMutexUnlock(t) ==
    /\ thr[t].pc = "unlock"
    /\ usageMutex' = [usageMutex EXCEPT ![thr[t].key].w = NoThread]
    /\ thr' = [thr EXCEPT ![t].pc = "done"]
    /\ UNCHANGED <<modelUsage, mapNil, req, hist, gzw, boot, wrapper, sniff, pooled, relay>>

\* kc.Usage(model)
UsageCall(t, k, model) ==
    /\ thr[t].pc = "idle"
    /\ thr' = [thr EXCEPT ![t] = [@ EXCEPT !.pc = "rlock", !.op = "get", !.key = k,
                                           !.model = model]]
    /\ UNCHANGED <<modelUsage, mapNil, req, usageMutex, hist, gzw, boot, wrapper, sniff, pooled, relay>>

\* kc.usageMutex.RLock(): waits until no writer holds the lock
UsageMutexRLock(t) ==
    /\ thr[t].pc = "rlock"
    /\ usageMutex[thr[t].key].w = NoThread
    /\ usageMutex' = [usageMutex EXCEPT ![thr[t].key].r = @ \cup {t}]
    /\ thr' = [thr EXCEPT ![t].pc = "read"]
    /\ UNCHANGED <<modelUsage, mapNil, req, hist, gzw, boot, wrapper, sniff, pooled, relay>>

\* return kc.modelUsage[model]: the result is evaluated before the deferred
\* RUnlock runs
UsageRead(t) ==
    /\ thr[t].pc = "read"
    /\ thr' = [thr EXCEPT ![t] = [@ EXCEPT !.pc = "runlock",
                                           !.ret = Usage(thr[t].key, thr[t].model)]]
    /\ UNCHANGED <<modelUsage, mapNil, req, usageMutex, hist, gzw, boot, wrapper, sniff, pooled, relay>>

\* defer kc.usageMutex.RUnlock()
UsageMutexRUnlock(t) ==
    /\ thr[t].pc = "runlock"
    /\ usageMutex' = [usageMutex EXCEPT ![thr[t].key].r = @ \ {t}]
    /\ thr' = [thr EXCEPT ![t].pc = "done"]
    /\ UNCHANGED <<modelUsage, mapNil, req, hist, gzw, boot, wrapper, sniff, pooled, relay>>

(***************************************************************************)
(* ChatCompletionStream.Recv called directly on one wrapper at a time, on  *)
(* any sequence of upstream chunks and errors.  The fields n, base, maxT   *)
(* and last are history, read by the properties only.                      *)
(***************************************************************************)
\* a wrapper is asked for at most this many chunks or errors
MaxRecv == 3

NoChunk ==
    [nChoices |-> 0, finishReason |-> "", content |-> "", reasoning |-> "",
     hasUsage |-> FALSE, total |-> 0]

\* the outcome of a call of Recv: "chunk" (the upstream stream gave ch with a
\* nil error) or "error"; what Recv made of it; did Recv return to its caller
NoRecv == [kind |-> "none", ch |-> NoChunk, finish |-> FALSE, returned |-> FALSE, err |-> ""]

\* no stream is open
NoWrapper == [open |-> FALSE]

\* the wrapper KeyClient.ChatCompletionStream returns
OpenWrapper ==
    [ open      |-> TRUE,
      keyClient |-> NoKey,    \* ChatCompletionStream.keyClient
      model     |-> "",       \* ChatCompletionStream.model
      usage     |-> 0,        \* ChatCompletionStream.usage
      panicked  |-> FALSE,    \* Recv panicked: the caller is unwinding
      n         |-> 0,        \* calls of Recv
      base      |-> 0,        \* Usage(keyClient, model) when the stream was opened
      maxT      |-> 0,        \* largest total_tokens of the finish chunks so far
      last      |-> NoRecv ]  \* the last call of Recv

\* Recv reads resp.Choices[0] on lines 267 and 270 only when `finish` is
\* still false there; the read panics when resp.Choices is empty
RecvIndexPanics(ch) ==
    LET finish1 == (ch.nChoices = 0)
        reads267 == ~finish1
        finish2 == finish1 \/ ch.finishReason # ""
        reads270 == ~finish2
    IN  (reads267 \/ reads270) /\ ch.nChoices = 0

\* KeyClient.ChatCompletionStream: the wrapper of a stream that was opened
NewChatCompletionStream(k, model) ==
    /\ ~wrapper.open
    /\ wrapper' = [OpenWrapper EXCEPT !.keyClient = k, !.model = model,
                                      !.base = Usage(k, model)]
    /\ UNCHANGED <<modelUsage, mapNil, req, usageMutex, thr, hist, gzw, boot, sniff, pooled, relay>>

\* Recv when w.stream.Recv() returns the chunk ch and a nil error
WrapperRecv(ch) ==
    LET delta == RecvDelta(wrapper.usage, ch)
        seen  == [wrapper EXCEPT !.n = @ + 1,
                                 !.maxT = IF IsFinish(ch) /\ ch.hasUsage /\ ch.total > @
                                          THEN ch.total ELSE @]
        call  == [kind |-> "chunk", ch |-> ch, finish |-> IsFinish(ch),
                  returned |-> TRUE, err |-> ""]
    IN
    /\ wrapper.open /\ ~wrapper.panicked
    /\ IF RecvIndexPanics(ch)
       THEN /\ wrapper' = [seen EXCEPT !.panicked = TRUE,
                                       !.last = [call EXCEPT !.returned = FALSE,
                                                             !.err = "index"]]
            /\ UNCHANGED modelUsage
       ELSE IF delta > 0 /\ IncrementPanics(wrapper.keyClient)
       THEN /\ wrapper' = [seen EXCEPT !.panicked = TRUE,
                                       !.last = [call EXCEPT !.returned = FALSE,
                                                             !.err = "nilmap"]]
            /\ UNCHANGED modelUsage
       ELSE /\ IF delta > 0
               THEN IncrementUsage(wrapper.keyClient, wrapper.model, delta)
               ELSE UNCHANGED modelUsage
            /\ wrapper' = [seen EXCEPT !.usage = @ + delta, !.last = call]
    /\ UNCHANGED <<mapNil, req, usageMutex, thr, hist, gzw, boot, sniff, pooled, relay>>

\* faulty variant of WrapperRecvErr: the tokens counted so far are taken back
WrapperRecvErrRollback(e) ==
    /\ wrapper.open /\ ~wrapper.panicked
    /\ wrapper' = [wrapper EXCEPT !.n = @ + 1, !.usage = 0,
                                  !.last = [NoRecv EXCEPT !.kind = "error", !.err = e]]
    /\ IncrementUsage(wrapper.keyClient, wrapper.model, 0 - wrapper.usage)
    /\ UNCHANGED <<mapNil, req, usageMutex, thr, hist, gzw, boot, sniff, pooled, relay>>

\* Recv when w.stream.Recv() returns the error e: returned as it is
WrapperRecvErr(e) ==
    /\ wrapper.open /\ ~wrapper.panicked
    /\ wrapper' = [wrapper EXCEPT !.n = @ + 1,
                                  !.last = [NoRecv EXCEPT !.kind = "error", !.err = e]]
    /\ UNCHANGED <<modelUsage, mapNil, req, usageMutex, thr, hist, gzw, boot, sniff, pooled, relay>>

\* ChatCompletionStream.Close: the caller is done with the stream
WrapperClose ==
    /\ wrapper.open
    /\ wrapper' = NoWrapper
    /\ UNCHANGED <<modelUsage, mapNil, req, usageMutex, thr, hist, gzw, boot, sniff, pooled, relay>>

(***************************************************************************)
(* The compression layer (src/server/compression.go).  A response is what  *)
(* the handler wrote (plain), what the pooled gzip.Writer still holds      *)
(* (gz.pending), what the underlying http.ResponseWriter has buffered      *)
(* (wbuf) and what has left for the client (wire).  The bytes on the wire  *)
(* are items: the gzip header, a deflate block carrying data, the gzip     *)
(* trailer carrying the size of the body, or raw bytes when the handler    *)
(* writes straight to the ResponseWriter.                                  *)
(***************************************************************************)
MaxOps == 3

Bytes == {"a", "b"}

\* what a handler passes to one Write
Payloads == { <<>>, <<"a">>, <<"b", "a">> }

\* Accept-Encoding headers, as the list of the codings they name
AcceptEncodings ==
    { <<>>, <<"br">>, <<"gzip">>, <<"deflate">>, <<"gzip", "br">>,
      <<"br", "gzip">>, <<"deflate", "gzip", "br">> }

Item(t, d, n) == [t |-> t, d |-> d, n |-> n]

\* strings.Contains(r.Header.Get("Accept-Encoding"), sub)
Contains(header, sub) == \E i \in 1..Len(header) : header[i] = sub

\* a gzip.Writer: has it written its header, the bytes it holds, the size of
\* the body so far, is it closed
FreshGz == [wroteHeader |-> FALSE, pending |-> <<>>, size |-> 0, closed |-> FALSE]

\* no request is in the middleware; the pool holds the writer gz
IdleGzw == [pc |-> "idle", gz |-> FreshGz]

\* a request enters the middleware
NewGzw ==
    [pc |-> "handler", accept |-> <<>>, enc |-> "", wrapped |-> FALSE, gz |-> FreshGz,
     wbuf |-> <<>>, wire |-> <<>>, plain |-> <<>>, op |-> "call", nops |-> 0]

\* gz.Reset(w): the pooled writer forgets the response it wrote before
gzReset(g) == FreshGz

\* the header goes out with the first Write, Flush or Close
gzHeader(g) == IF g.wroteHeader THEN <<>> ELSE << Item("hdr", <<>>, 0) >>

\* gzip.Writer.Write(b): the result is the writer and what it hands on
gzWrite(g, b) ==
    [gz  |-> [g EXCEPT !.wroteHeader = TRUE, !.pending = @ \o b,
                       !.size = @ + Len(b)],
     out |-> gzHeader(g)]

\* gzip.Writer.Flush(): everything held goes out as one block
gzFlush(g) ==
    [gz  |-> [g EXCEPT !.wroteHeader = TRUE, !.pending = <<>>],
     out |-> gzHeader(g) \o << Item("blk", g.pending, 0) >>]

\* gzip.Writer.Close(): the last block, then the trailer with the body size
gzClose(g) ==
    [gz  |-> [g EXCEPT !.wroteHeader = TRUE, !.pending = <<>>, !.closed = TRUE],
     out |-> gzHeader(g) \o << Item("blk", g.pending, 0), Item("trl", <<>>, g.size) >>]

RECURSIVE Payload(_)
\* the data carried by a sequence of items
Payload(items) ==
    IF items = <<>> THEN <<>> ELSE Head(items).d \o Payload(Tail(items))

\* gzip.NewReader + io.ReadAll: header, blocks, trailer with the right size
gunzip(items) ==
    LET n == Len(items)
        wellFormed ==
            /\ n >= 2
            /\ items[1].t = "hdr"
            /\ items[n].t = "trl"
            /\ \A i \in 2..(n - 1) : items[i].t = "blk"
            /\ items[n].n = Len(Payload(items))
    IN  IF wellFormed THEN [ok |-> TRUE, body |-> Payload(items)]
                      ELSE [ok |-> FALSE, body |-> <<>>]

\* what a client reads from the wire bytes under the announced encoding
Decode(enc, items) ==
    IF enc = "gzip" THEN gunzip(items)
    ELSE IF enc = "" /\ \A i \in 1..Len(items) : items[i].t = "raw"
         THEN [ok |-> TRUE, body |-> Payload(items)]
         ELSE [ok |-> FALSE, body |-> <<>>]

\* compressionMiddleware up to the call of next: no gzip in Accept-Encoding,
\* next gets the ResponseWriter itself; otherwise a writer is taken from the
\* pool and reset, Content-Encoding is set and next gets the wrapper
compressionMiddleware(accept) ==
    /\ gzw.pc = "idle"
    /\ gzw' = [NewGzw EXCEPT !.accept = accept,
                             !.enc = IF Contains(accept, "gzip") THEN "gzip" ELSE "",
                             !.wrapped = Contains(accept, "gzip"),
                             !.gz = IF Contains(accept, "gzip")
                                    THEN gzReset(gzw.gz) ELSE gzw.gz]
    /\ UNCHANGED <<modelUsage, mapNil, req, usageMutex, thr, hist, boot, wrapper, sniff, pooled, relay>>

\* the handler writes b: gzipResponseWriter.Write, or the ResponseWriter's own
Write(b) ==
    /\ gzw.pc = "handler"
    /\ gzw' = IF gzw.wrapped
              THEN LET w == gzWrite(gzw.gz, b) IN
                   [gzw EXCEPT !.gz = w.gz, !.wbuf = @ \o w.out,
                               !.plain = @ \o b, !.op = "write", !.nops = @ + 1]
              ELSE [gzw EXCEPT !.wbuf = IF b = <<>> THEN @
                                        ELSE Append(@, Item("raw", b, 0)),
                               !.plain = @ \o b, !.op = "write", !.nops = @ + 1]
    /\ UNCHANGED <<modelUsage, mapNil, req, usageMutex, thr, hist, boot, wrapper, sniff, pooled, relay>>

FlushTransportFirst ==
    /\ gzw.pc = "handler"
    /\ gzw' = IF gzw.wrapped
              THEN LET f == gzFlush(gzw.gz) IN
                   [gzw EXCEPT !.gz = f.gz, !.wire = @ \o gzw.wbuf, !.wbuf = f.out,
                               !.op = "flush", !.nops = @ + 1]
              ELSE [gzw EXCEPT !.wire = @ \o gzw.wbuf, !.wbuf = <<>>,
                               !.op = "flush", !.nops = @ + 1]
    /\ UNCHANGED <<modelUsage, mapNil, req, usageMutex, thr, hist, boot, wrapper, sniff, pooled, relay>>

\* the handler flushes: gzipResponseWriter.Flush flushes the gzip.Writer and
\* then the ResponseWriter; without the wrapper it is the ResponseWriter's
Flush ==
    /\ gzw.pc = "handler"
    /\ gzw' = IF gzw.wrapped
              THEN LET f == gzFlush(gzw.gz) IN
                   [gzw EXCEPT !.gz = f.gz, !.wire = @ \o gzw.wbuf \o f.out,
                               !.wbuf = <<>>, !.op = "flush", !.nops = @ + 1]
              ELSE [gzw EXCEPT !.wire = @ \o gzw.wbuf, !.wbuf = <<>>,
                               !.op = "flush", !.nops = @ + 1]
    /\ UNCHANGED <<modelUsage, mapNil, req, usageMutex, thr, hist, boot, wrapper, sniff, pooled, relay>>

HandlerReturnNoClose ==
    /\ gzw.pc = "handler"
    /\ gzw' = [gzw EXCEPT !.pc = "done", !.op = "return",
                          !.wire = @ \o gzw.wbuf, !.wbuf = <<>>]
    /\ UNCHANGED <<modelUsage, mapNil, req, usageMutex, thr, hist, boot, wrapper, sniff, pooled, relay>>

\* next returns: the deferred gz.Close() and Put run, then the server sends
\* what the ResponseWriter still holds and ends the response
HandlerReturn ==
    /\ gzw.pc = "handler"
    /\ gzw' = IF gzw.wrapped
              THEN LET c == gzClose(gzw.gz) IN
                   [gzw EXCEPT !.pc = "done", !.op = "return", !.gz = c.gz,
                               !.wire = @ \o gzw.wbuf \o c.out, !.wbuf = <<>>]
              ELSE [gzw EXCEPT !.pc = "done", !.op = "return",
                               !.wire = @ \o gzw.wbuf, !.wbuf = <<>>]
    /\ UNCHANGED <<modelUsage, mapNil, req, usageMutex, thr, hist, boot, wrapper, sniff, pooled, relay>>

\* the connection serves its next request
NextRequest ==
    /\ gzw.pc = "done"
    /\ gzw' = [IdleGzw EXCEPT !.gz = gzw.gz]
    /\ UNCHANGED <<modelUsage, mapNil, req, usageMutex, thr, hist, boot, wrapper, sniff, pooled, relay>>

(***************************************************************************)
(* Start-up (main, config.LoadConfig, app.NewApp, App.Run).  boot is the   *)
(* process: the configuration file it was given, where main is, and the    *)
(* App it built.                                                           *)
(***************************************************************************)
\* the groups a configuration file may declare: those of CfgGroups (the
\* entry of "gx" names the undeclared provider "zz") and a group without
\* entries
FileGroups == CfgGroups \o << [Name |-> "ge", Models |-> <<>>] >>

InNames(S, g) == g.Name \in S

\* a configuration file: can it be read and unmarshalled, does it set
\* api_key, which groups does it declare, does it declare the provider
ConfigFiles ==
    [readable : BOOLEAN, hasKey : BOOLEAN,
     groups : SUBSET {"g1", "g2", "gx", "ge"}, declared : BOOLEAN]

\* the file the serving process of Spec was started with
ConfigYaml ==
    [readable |-> TRUE, hasKey |-> TRUE, groups |-> GroupNames, declared |-> TRUE]

\* the config.Config viper unmarshals from the file
FileConfig(file) ==
    [APIKey |-> IF file.hasKey THEN CfgAPIKey ELSE <<>>,
     Groups |-> SelectSeq(FileGroups, LAMBDA g : InNames(file.groups, g)),
     Providers |-> IF file.declared THEN CfgProviders ELSE <<>>]

\* config.LoadConfig: an error when the file cannot be read or unmarshalled
LoadConfig(file) ==
    IF file.readable THEN [err |-> FALSE, cfg |-> FileConfig(file)]
                     ELSE [err |-> TRUE, cfg |-> <<>>]

\* app.NewApp: copies groups and providers, one ProviderClient per provider
NewApp(cfg) ==
    [Config |-> cfg, Groups |-> cfg.Groups, Providers |-> cfg.Providers,
     clients |-> { cfg.Providers[i].Name : i \in 1..Len(cfg.Providers) }]

\* the process once App.Run serves the App made from file
Serving(file) == [pc |-> "serving", file |-> file]

\* the App of the process
App == NewApp(LoadConfig(boot.file).cfg)

\* main: panic on a LoadConfig error, otherwise NewApp and Run
main ==
    /\ boot.pc = "start"
    /\ boot' = IF LoadConfig(boot.file).err
               THEN [boot EXCEPT !.pc = "panicked"]
               ELSE Serving(boot.file)
    /\ UNCHANGED <<modelUsage, mapNil, req, usageMutex, thr, hist, gzw, wrapper, sniff, pooled, relay>>

(***************************************************************************)
(* The streaming sniff of Server.HandleRequest.  The body of a request is  *)
(* a reader over a sequence of bytes; the sniff reads once into a buffer   *)
(* of PeekSize bytes (1024 in the code) and puts an io.MultiReader of the  *)
(* bytes it read and of the rest of the body in the body's place.  The     *)
(* handler behind it reads the body to its end, ReadBuf bytes at most at a *)
(* time.                                                                   *)
(***************************************************************************)
PeekSize == 2
MaxBody == 3
ReadBuf == 2

SniffBytes == {"s", "t"}

\* the bodies: every sequence of at most MaxBody bytes
SniffBodies == UNION { [1..n -> SniffBytes] : n \in 0..MaxBody }

\* stands for the 13 bytes of "stream":true
StreamMark == <<"s", "t">>

ContentTypes == { <<"application/json">>, <<"application/json", "charset=utf-8">>,
                  <<"text/plain">> }

Take(s, n) == SubSeq(s, 1, n)
Drop(s, n) == SubSeq(s, n + 1, Len(s))

\* strings.Contains of two byte strings
ContainsBytes(s, sub) ==
    \E i \in 0..(Len(s) - Len(sub)) : SubSeq(s, i + 1, i + Len(sub)) = sub

\* the byte counts one Read into a buffer of size bytes can return from a
\* reader holding data: none at the end of the data, otherwise at least one
\* byte and no more than the buffer holds
ReadCounts(data, size) ==
    IF data = <<>> THEN {0}
    ELSE { n \in 1..size : n <= Len(data) }

NoSniff == [pc |-> "idle"]

\* the body left in place: the peeked bytes are gone from the reader
ReattachNone(peeked, body) == [peeked |-> <<>>, body |-> body]

\* io.NopCloser(io.MultiReader(bytes.NewReader(peeked), r.Body))
Reattach(peeked, body) == [peeked |-> peeked, body |-> body]

\* the first lines of Server.HandleRequest on a request whose body holds
\* data and whose first Read returns n bytes
Sniff(path, method, ctype, data, n) ==
    /\ sniff.pc = "idle"
    /\ LET eligible == path = PathCompletions /\ method = "POST"
                       /\ Contains(ctype, "application/json")
           peeked == Take(data, n)
           rd == IF eligible /\ n > 0 THEN Reattach(peeked, Drop(data, n))
                 ELSE [peeked |-> <<>>, body |-> data]
       IN  /\ eligible \/ n = 0
           /\ sniff' = [pc |-> "sniffed", orig |-> data, n |-> n,
                        peeked |-> rd.peeked, body |-> rd.body,
                        isStreaming |-> eligible /\ n > 0
                                        /\ ContainsBytes(peeked, StreamMark),
                        contentLength |-> IF eligible /\ n > 0 /\ Len(data) > 0
                                          THEN n + Len(data) ELSE Len(data),
                        got |-> <<>>]
    /\ UNCHANGED <<modelUsage, mapNil, req, usageMutex, thr, hist, gzw, boot, wrapper, pooled, relay>>

\* one Read of the request body after the sniff, into a buffer of m bytes,
\* returning k bytes: the MultiReader serves the peeked bytes first and one
\* reader at a time
BodyRead(m, k) ==
    /\ sniff.pc = "sniffed"
    /\ IF sniff.peeked # <<>>
       THEN /\ k = (IF m < Len(sniff.peeked) THEN m ELSE Len(sniff.peeked))
            /\ sniff' = [sniff EXCEPT !.got = @ \o Take(sniff.peeked, k),
                                      !.peeked = Drop(@, k)]
       ELSE /\ k \in ReadCounts(sniff.body, m)
            /\ sniff' = IF k = 0
                        THEN [sniff EXCEPT !.pc = "eof"]
                        ELSE [sniff EXCEPT !.got = @ \o Take(sniff.body, k),
                                           !.body = Drop(@, k)]
    /\ UNCHANGED <<modelUsage, mapNil, req, usageMutex, thr, hist, gzw, boot, wrapper, pooled, relay>>

\* the next request
SniffNext ==
    /\ sniff.pc = "eof"
    /\ sniff' = NoSniff
    /\ UNCHANGED <<modelUsage, mapNil, req, usageMutex, thr, hist, gzw, boot, wrapper, pooled, relay>>

(***************************************************************************)
(* gzipWriterPool under concurrent responses.  Each connection of          *)
(* PoolConns runs compressionMiddleware in its own goroutine; a gzip.Writer *)
(* is an object (an id of GzIds) with its state and the ResponseWriter its *)
(* last Reset bound it to, and what it emits goes to that ResponseWriter.  *)
(***************************************************************************)
PoolOps == 2

PoolConns == {"c1", "c2"}
GzIds == {"z1", "z2"}

\* the requests that reach the pool accept gzip
PoolAccepts == { <<"gzip">>, <<"br", "gzip">> }
PoolPayloads == { <<"a">>, <<"b">> }

\* gzip.NewWriter(io.Discard)
Discard == "discard"
NewGzipWriter == [st |-> FreshGz, dst |-> Discard]

IdleResp == [pc |-> "idle"]

\* no writer made yet, nothing in the pool, no request in the middleware
EmptyPool ==
    [made |-> {}, free |-> {}, gz |-> [z \in GzIds |-> NewGzipWriter],
     conn |-> [c \in PoolConns |-> IdleResp]]

\* faulty variant of PoolGet: the writer handed out stays in the pool
PoolGetKeep(free, z) == free

\* sync.Pool.Get: the writer handed out leaves the pool
PoolGet(free, z) == free \ {z}

\* sync.Pool.Put
PoolPut(free, z) == free \cup {z}

\* what a gzip.Writer emits reaches the ResponseWriter it is bound to, as
\* long as that response is being written
Emit(conn, dst, out) ==
    IF dst \in PoolConns /\ conn[dst].pc = "handler"
    THEN [conn EXCEPT ![dst].wbuf = @ \o out]
    ELSE conn

\* compressionMiddleware on the connection c up to the call of next; z is
\* the writer Get returns: one of the pool, or a new one
PoolEnter(c, accept, z) ==
    /\ pooled.conn[c].pc = "idle"
    /\ LET resp == [pc |-> "handler", enc |-> "", wrapped |-> FALSE, z |-> "",
                    reused |-> FALSE, wbuf |-> <<>>, wire |-> <<>>, plain |-> <<>>,
                    nops |-> 0]
       IN  IF ~Contains(accept, "gzip")
           THEN /\ z = CHOOSE x \in GzIds : TRUE
                /\ pooled' = [pooled EXCEPT !.conn[c] = resp]
           ELSE /\ z \in pooled.free \/ z \notin pooled.made
                /\ pooled' =
                     [pooled EXCEPT
                        !.made = @ \cup {z},
                        !.free = PoolGet(@, z),
                        !.gz[z] = [st |-> gzReset(@.st), dst |-> c],
                        !.conn[c] = [resp EXCEPT !.enc = "gzip", !.wrapped = TRUE,
                                                 !.z = z, !.reused = z \in pooled.made]]
    /\ UNCHANGED <<modelUsage, mapNil, req, usageMutex, thr, hist, gzw, boot, wrapper, sniff, relay>>

\* the handler of c writes b
PoolWrite(c, b) ==
    LET q == pooled.conn[c] IN
    /\ q.pc = "handler"
    /\ pooled' =
         IF q.wrapped
         THEN LET w == gzWrite(pooled.gz[q.z].st, b)
                  conn1 == Emit(pooled.conn, pooled.gz[q.z].dst, w.out)
              IN  [pooled EXCEPT !.gz[q.z].st = w.gz,
                                 !.conn = [conn1 EXCEPT ![c].plain = @ \o b,
                                                        ![c].nops = @ + 1]]
         ELSE [pooled EXCEPT !.conn[c].wbuf = Append(@, Item("raw", b, 0)),
                             !.conn[c].plain = @ \o b,
                             !.conn[c].nops = @ + 1]
    /\ UNCHANGED <<modelUsage, mapNil, req, usageMutex, thr, hist, gzw, boot, wrapper, sniff, relay>>

\* the handler of c flushes: the gzip.Writer, then the ResponseWriter
PoolFlush(c) ==
    LET q == pooled.conn[c] IN
    /\ q.pc = "handler"
    /\ pooled' =
         IF q.wrapped
         THEN LET f == gzFlush(pooled.gz[q.z].st)
                  conn1 == Emit(pooled.conn, pooled.gz[q.z].dst, f.out)
              IN  [pooled EXCEPT !.gz[q.z].st = f.gz,
                                 !.conn = [conn1 EXCEPT ![c].wire = @ \o conn1[c].wbuf,
                                                        ![c].wbuf = <<>>,
                                                        ![c].nops = @ + 1]]
         ELSE [pooled EXCEPT !.conn[c].wire = @ \o q.wbuf,
                             !.conn[c].wbuf = <<>>,
                             !.conn[c].nops = @ + 1]
    /\ UNCHANGED <<modelUsage, mapNil, req, usageMutex, thr, hist, gzw, boot, wrapper, sniff, relay>>

\* next returns on c: the deferred gz.Close(), then the deferred Put, then
\* the server sends what the ResponseWriter holds and ends the response
PoolReturn(c) ==
    LET q == pooled.conn[c] IN
    /\ q.pc = "handler"
    /\ pooled' =
         IF q.wrapped
         THEN LET cl == gzClose(pooled.gz[q.z].st)
                  conn1 == Emit(pooled.conn, pooled.gz[q.z].dst, cl.out)
              IN  [pooled EXCEPT !.gz[q.z].st = cl.gz,
                                 !.free = PoolPut(@, q.z),
                                 !.conn = [conn1 EXCEPT ![c].wire = @ \o conn1[c].wbuf,
                                                        ![c].wbuf = <<>>,
                                                        ![c].pc = "done"]]
         ELSE [pooled EXCEPT !.conn[c].wire = @ \o q.wbuf,
                             !.conn[c].wbuf = <<>>,
                             !.conn[c].pc = "done"]
    /\ UNCHANGED <<modelUsage, mapNil, req, usageMutex, thr, hist, gzw, boot, wrapper, sniff, relay>>

\* the connection c serves its next request
PoolNextRequest(c) ==
    /\ pooled.conn[c].pc = "done"
    /\ pooled' = [pooled EXCEPT !.conn[c] = IdleResp]
    /\ UNCHANGED <<modelUsage, mapNil, req, usageMutex, thr, hist, gzw, boot, wrapper, sniff, relay>>

(***************************************************************************)
(* Streams relayed concurrently.  The goroutine t of Writers serves one    *)
(* streaming request: it is blocked in stream.Recv until the upstream      *)
(* delivers, counts the usage of a chunk through KeyClient.IncrementUsage  *)
(* (the steps of thr[t]: Lock, the read and the write of `+=`, the         *)
(* deferred Unlock), writes the event, and returns at io.EOF or an error   *)
(* with the deferred stream.Close().                                       *)
(***************************************************************************)
IdleRelay == [pc |-> "idle"]

NoRelays == [t \in Writers |-> IdleRelay]

\* handleChatCompletions has opened the stream on the KeyClient k and enters
\* the relay loop
RelayOpen(t, k) ==
    /\ relay[t].pc = "idle"
    /\ relay' = [relay EXCEPT ![t] =
                   [pc |-> "recv", key |-> k, model |-> "ma", usage |-> 0, recvd |-> 0,
                    closed |-> FALSE, end |-> ""]]
    /\ UNCHANGED <<modelUsage, mapNil, req, usageMutex, thr, hist, gzw, boot, wrapper, sniff, pooled>>

\* the upstream delivers the chunk ch: Recv counts it when RecvDelta says so
RelayRecv(t, ch) ==
    LET q == relay[t]
        delta == RecvDelta(q.usage, ch)
    IN
    /\ q.pc = "recv"
    /\ thr[t].pc = "idle"
    /\ IF delta > 0
       THEN /\ relay' = [relay EXCEPT ![t].pc = "count", ![t].recvd = @ + 1]
            /\ thr' = [thr EXCEPT ![t] = [@ EXCEPT !.pc = "lock", !.op = "inc",
                                                   !.key = q.key, !.model = q.model,
                                                   !.tokens = delta]]
       ELSE /\ relay' = [relay EXCEPT ![t].pc = "write", ![t].recvd = @ + 1]
            /\ UNCHANGED thr
    /\ UNCHANGED <<modelUsage, mapNil, req, usageMutex, hist, gzw, boot, wrapper, sniff, pooled>>

\* IncrementUsage is over: `w.usage += delta` and Recv returns the chunk, or
\* the panic of IncrementUsage unwinds the handler through stream.Close()
RelayCounted(t) ==
    /\ relay[t].pc = "count"
    /\ thr[t].pc = "done"
    /\ relay' = [relay EXCEPT ![t] =
                   IF thr[t].panicked
                   THEN [@ EXCEPT !.pc = "done", !.closed = TRUE, !.end = "panic"]
                   ELSE [@ EXCEPT !.pc = "write", !.usage = @ + thr[t].tokens]]
    /\ thr' = [thr EXCEPT ![t] = IdleThr]
    /\ UNCHANGED <<modelUsage, mapNil, req, usageMutex, hist, gzw, boot, wrapper, sniff, pooled>>

\* the event of the chunk is written and flushed; the loop calls Recv again
RelayWrite(t) ==
    /\ relay[t].pc = "write"
    /\ relay' = [relay EXCEPT ![t].pc = "recv"]
    /\ UNCHANGED <<modelUsage, mapNil, req, usageMutex, thr, hist, gzw, boot, wrapper, sniff, pooled>>

\* Recv returns io.EOF: [DONE] is written, the handler returns, Close runs
RelayEOF(t) ==
    /\ relay[t].pc = "recv"
    /\ relay' = [relay EXCEPT ![t] = [@ EXCEPT !.pc = "done", !.closed = TRUE, !.end = "eof"]]
    /\ UNCHANGED <<modelUsage, mapNil, req, usageMutex, thr, hist, gzw, boot, wrapper, sniff, pooled>>

\* Recv returns another error: the handler returns, Close runs
RelayError(t) ==
    /\ relay[t].pc = "recv"
    /\ relay' = [relay EXCEPT ![t] = [@ EXCEPT !.pc = "done", !.closed = TRUE, !.end = "error"]]
    /\ UNCHANGED <<modelUsage, mapNil, req, usageMutex, thr, hist, gzw, boot, wrapper, sniff, pooled>>


(***************************************************************************)
(* The system.  The guards written in Next keep the counters of the model  *)
(* within its bounds; the actions themselves are the code's.               *)
(***************************************************************************)
InitServer ==
    /\ modelUsage = [k \in Keys |-> EmptyMap]
    \* every KeyClient of the registry is built the same way: by NewKeyClient
    \* (the map is made) or by the struct literal of getClients (the map is nil)
    /\ mapNil \in { [k \in Keys |-> FALSE], [k \in Keys |-> TRUE] }
    /\ req = [r \in Reqs |-> IdleReq]
    /\ usageMutex = [k \in Keys |-> UnlockedMutex]
    /\ thr = [t \in Threads |-> IdleThr]
    /\ hist = [asked |-> [k \in Keys |-> EmptyMap], applied |-> [k \in Keys |-> EmptyMap],
               held |-> [k \in Keys |-> [n \in Names |-> {0}]]]
    /\ gzw = IdleGzw
    /\ wrapper = NoWrapper
    /\ sniff = NoSniff
    /\ pooled = EmptyPool
    /\ relay = NoRelays

\* the process serves config.yaml
Init ==
    /\ InitServer
    /\ boot = Serving(ConfigYaml)

\* the process is about to run main on some configuration file
InitStartup ==
    /\ InitServer
    /\ boot \in { [pc |-> "start", file |-> f] : f \in ConfigFiles }

\* the counter of the pair the request r was routed to stays within the bound
WithinCap(r, tokens, cap) ==
    Usage(req[r].key, req[r].fwdModel) + tokens <= cap

Next ==
    \/ \E r \in Reqs, method \in Methods, auth \in AuthHeaders, body \in Bodies,
          flusher \in BOOLEAN : HandleRequest(r, method, auth, body, flusher)
    \/ \E r \in Reqs, ok \in BOOLEAN, T \in 0..MaxTok, marshalOK \in BOOLEAN :
          /\ req[r].pc = "calling" /\ WithinCap(r, T, MaxUsage)
          /\ ChatCompletion(r, ok, T, marshalOK)
    \/ \E r \in Reqs, ok \in BOOLEAN : ChatCompletionStream(r, ok)
    \/ \E r \in Reqs, ch \in Chunks, marshalOK \in BOOLEAN :
          /\ req[r].pc = "relaying" /\ req[r].recvd < MaxChunks
          /\ WithinCap(r, RecvDelta(req[r].usage, ch), MaxUsage)
          /\ RecvChunk(r, ch, marshalOK, TRUE)
    \/ \E r \in Reqs : RecvEOF(r)
    \/ \E r \in Reqs : RecvError(r)
    \/ \E k \in Keys, model \in ModelNames, tokens \in (-1)..MaxTok :
          /\ Usage(k, model) + tokens \in 0..MaxUsage
          /\ Increment(k, model, tokens)
    \/ \E r \in Reqs : Reset(r)
    \/ \E r \in Reqs, method \in Methods, auth \in AuthHeaders :
          HandleModelsRequest(r, method, auth)
    \/ \E r \in Reqs, method \in Methods, auth \in AuthHeaders :
          HandleHealth(r, method, auth)

Spec == Init /\ [][Next]_vars

(***************************************************************************)
(* The serial scenario: one connection, requests handled one at a time,    *)
(* every upstream response reporting the same total_tokens, no other       *)
(* writer of the usage maps.                                               *)
(***************************************************************************)
Served == Usage("k1", "ma") + Usage("k2", "ma")

NextSerial ==
    \/ \E method \in Methods, auth \in AuthHeaders, stream \in BOOLEAN :
          HandleRequest("r1", method, auth,
                        [json |-> TRUE, hasModel |-> TRUE, model |-> "g1",
                         stream |-> stream, typed |-> TRUE,
                         messages |-> "m1", extra |-> ""], FALSE)
    \/ \E ok \in BOOLEAN, marshalOK \in BOOLEAN :
          /\ Served < MaxSerial * SerialTok
          /\ ChatCompletion("r1", ok, SerialTok, marshalOK)
    \/ \E ok \in BOOLEAN : ChatCompletionStream("r1", ok)
    \/ Reset("r1")

SpecSerial == Init /\ [][NextSerial]_vars

(***************************************************************************)
(* The usage map under concurrent callers: every goroutine makes one call, *)
(* in any interleaving of their steps.                                     *)
(***************************************************************************)
NextLedger ==
    \/ \E t \in Writers, k \in Keys, model \in ModelNames, tokens \in (-1)..MaxTok :
          IncrementUsageCall(t, k, model, tokens)
    \/ \E t \in Writers : UsageMutexLock(t)
    \/ \E t \in Writers : IncrementUsageLoad(t)
    \/ \E t \in Writers : IncrementUsageStore(t)
    \/ \E t \in Writers : UsageMutexUnlock(t)
    \/ \E t \in Readers, k \in Keys, model \in ModelNames : UsageCall(t, k, model)
    \/ \E t \in Readers : UsageMutexRLock(t)
    \/ \E t \in Readers : UsageRead(t)
    \/ \E t \in Readers : UsageMutexRUnlock(t)

SpecLedger == Init /\ [][NextLedger]_vars

(***************************************************************************)
(* The compression layer serving the requests of one connection, the       *)
(* handler making at most MaxOps calls on the writer it is given.          *)
(***************************************************************************)
NextCompression ==
    \/ \E accept \in AcceptEncodings : compressionMiddleware(accept)
    \/ \E b \in Payloads : gzw.pc = "handler" /\ gzw.nops < MaxOps /\ Write(b)
    \/ gzw.pc = "handler" /\ gzw.nops < MaxOps /\ Flush
    \/ HandlerReturn
    \/ NextRequest

SpecCompression == Init /\ [][NextCompression]_vars

(***************************************************************************)
(* Start-up on any of the configuration files.                             *)
(***************************************************************************)
NextStartup == main

SpecStartup == InitStartup /\ [][NextStartup]_vars

(***************************************************************************)
(* Authorised POST requests whose bodies differ in the fields the gateway  *)
(* does not consume, up to the end of the upstream call.                   *)
(***************************************************************************)
NextForward ==
    \/ \E body \in ForwardBodies, flusher \in BOOLEAN :
          HandleRequest("r1", "POST", Bearer \o CfgAPIKey, body, flusher)
    \/ \E ok \in BOOLEAN, T \in 0..MaxTok, marshalOK \in BOOLEAN :
          /\ req["r1"].pc = "calling" /\ WithinCap("r1", T, MaxUsage)
          /\ ChatCompletion("r1", ok, T, marshalOK)
    \/ \E ok \in BOOLEAN : ChatCompletionStream("r1", ok)
    \/ RecvEOF("r1")
    \/ Reset("r1")

SpecForward == Init /\ [][NextForward]_vars

(***************************************************************************)
(* Streaming requests of clients that may stop reading: a write to the     *)
(* ResponseWriter may fail, and every later write fails too.  (In Spec the *)
(* client reads to the end.)                                               *)
(***************************************************************************)
NextRelay ==
    \/ \E g \in {"g1", "g2"}, flusher \in BOOLEAN :
          HandleRequest("r1", "POST", Bearer \o CfgAPIKey,
                        [json |-> TRUE, hasModel |-> TRUE, model |-> g, stream |-> TRUE,
                         typed |-> TRUE, messages |-> "m1", extra |-> ""], flusher)
    \/ \E ok \in BOOLEAN : ChatCompletionStream("r1", ok)
    \/ \E ch \in Chunks, marshalOK \in BOOLEAN, writeOK \in BOOLEAN :
          /\ req["r1"].pc = "relaying" /\ req["r1"].recvd < MaxChunks
          /\ WithinCap("r1", RecvDelta(req["r1"].usage, ch), MaxUsage)
          /\ RecvChunk("r1", ch, marshalOK, writeOK)
    \/ RecvEOF("r1")
    \/ RecvError("r1")
    \/ Reset("r1")

SpecRelay == Init /\ [][NextRelay]_vars

(***************************************************************************)
(* One ChatCompletionStream after another, each read by direct calls of    *)
(* Recv; nothing else writes the usage maps.                               *)
(***************************************************************************)
NextStream ==
    \/ \E k \in Keys : NewChatCompletionStream(k, "ma")
    \/ \E ch \in Chunks :
          /\ wrapper.open /\ wrapper.n < MaxRecv
          /\ Usage(wrapper.keyClient, wrapper.model) + RecvDelta(wrapper.usage, ch) <= MaxUsage
          /\ WrapperRecv(ch)
    \/ \E e \in {"EOF", "error"} :
          wrapper.open /\ wrapper.n < MaxRecv /\ WrapperRecvErr(e)
    \/ WrapperClose

SpecStream == Init /\ [][NextStream]_vars

(***************************************************************************)
(* The requests through the streaming sniff, one at a time.                *)
(***************************************************************************)
NextSniff ==
    \/ \E path \in {PathCompletions, PathModels}, method \in {"POST", "GET"},
          ctype \in ContentTypes, data \in SniffBodies :
          \E n \in ReadCounts(data, PeekSize) \cup {0} :
             Sniff(path, method, ctype, data, n)
    \/ \E m \in 1..ReadBuf, k \in 0..ReadBuf : BodyRead(m, k)
    \/ SniffNext

SpecSniff == Init /\ [][NextSniff]_vars

(***************************************************************************)
(* Concurrent requests: each connection of Conns carries one request,      *)
(* buffered or streaming, and the handlers interleave at their upstream    *)
(* calls.  No other goroutine writes the usage maps.                       *)
(***************************************************************************)
Conns == {"r1", "r2"}

\* the chunks that differ in what Recv counts: a finish chunk (no choice)
\* and a content chunk, each without usage or with any total_tokens
CountedChunks ==
    { ch \in Chunks : /\ ch.finishReason = "" /\ ch.reasoning = ""
                      /\ (ch.nChoices = 0 \/ ch.content = "x") }

InitConcurrent ==
    /\ modelUsage = [k \in Keys |-> EmptyMap]
    /\ mapNil \in { [k \in Keys |-> FALSE], [k \in Keys |-> TRUE] }
    /\ req = [r \in Conns |-> IdleReq]
    /\ usageMutex = [k \in Keys |-> UnlockedMutex]
    /\ thr = [t \in Threads |-> IdleThr]
    /\ hist = [asked |-> [k \in Keys |-> EmptyMap], applied |-> [k \in Keys |-> EmptyMap],
               held |-> [k \in Keys |-> [n \in Names |-> {0}]]]
    /\ gzw = IdleGzw
    /\ wrapper = NoWrapper
    /\ sniff = NoSniff
    /\ pooled = EmptyPool
    /\ relay = NoRelays
    /\ boot = Serving(ConfigYaml)

NextConcurrent ==
    \/ \E r \in Conns, g \in {"g1", "g2"}, s \in BOOLEAN :
          HandleRequest(r, "POST", Bearer \o CfgAPIKey,
                        [json |-> TRUE, hasModel |-> TRUE, model |-> g, stream |-> s,
                         typed |-> TRUE, messages |-> "m1", extra |-> ""], TRUE)
    \/ \E r \in Conns, ok \in BOOLEAN, T \in 0..MaxTok, marshalOK \in BOOLEAN :
          ChatCompletion(r, ok, T, marshalOK)
    \/ \E r \in Conns, ok \in BOOLEAN : ChatCompletionStream(r, ok)
    \/ \E r \in Conns, ch \in CountedChunks :
          /\ req[r].pc = "relaying" /\ req[r].recvd < MaxChunks
          /\ RecvChunk(r, ch, TRUE, TRUE)
    \/ \E r \in Conns : RecvEOF(r)
    \/ \E r \in Conns : RecvError(r)

SpecConcurrent == InitConcurrent /\ [][NextConcurrent]_vars

(***************************************************************************)
(* A burst: the requests of Conns arrive when the usage maps hold any      *)
(* counts, and each reports its usage at most once.                        *)
(***************************************************************************)
\* the usage maps when the burst begins: any count on the two models
BurstLedgers ==
    { [k \in Keys |-> [n \in Names |-> IF n = "ma" THEN a[k] ELSE IF n = "mb" THEN b[k] ELSE 0]]
      : a \in [Keys -> 0..MaxUsage], b \in [Keys -> 0..MaxUsage] }

\* a nil map holds no count
InitBurst ==
    /\ mapNil \in { [k \in Keys |-> FALSE], [k \in Keys |-> TRUE] }
    /\ modelUsage \in IF \A k \in Keys : mapNil[k] THEN { [k \in Keys |-> EmptyMap] }
                      ELSE BurstLedgers
    /\ req = [r \in Conns |-> IdleReq]
    /\ usageMutex = [k \in Keys |-> UnlockedMutex]
    /\ thr = [t \in Threads |-> IdleThr]
    /\ hist = [asked |-> [k \in Keys |-> EmptyMap], applied |-> [k \in Keys |-> EmptyMap],
               held |-> [k \in Keys |-> [n \in Names |-> {0}]]]
    /\ gzw = IdleGzw
    /\ wrapper = NoWrapper
    /\ sniff = NoSniff
    /\ pooled = EmptyPool
    /\ relay = NoRelays
    /\ boot = Serving(ConfigYaml)

NextBurst ==
    \/ \E r \in Conns, g \in {"g1", "g2"}, s \in BOOLEAN :
          HandleRequest(r, "POST", Bearer \o CfgAPIKey,
                        [json |-> TRUE, hasModel |-> TRUE, model |-> g, stream |-> s,
                         typed |-> TRUE, messages |-> "m1", extra |-> ""], TRUE)
    \/ \E r \in Conns, ok \in BOOLEAN, T \in 0..MaxTok : ChatCompletion(r, ok, T, TRUE)
    \/ \E r \in Conns, ok \in BOOLEAN : ChatCompletionStream(r, ok)
    \/ \E r \in Conns, ch \in CountedChunks :
          /\ req[r].pc = "relaying" /\ req[r].recvd = 0
          /\ ch.nChoices = 0 /\ ch.hasUsage
          /\ RecvChunk(r, ch, TRUE, TRUE)
    \/ \E r \in Conns : RecvEOF(r)

SpecBurst == InitBurst /\ [][NextBurst]_vars

(***************************************************************************)
(* Concurrent responses through compressionMiddleware and the pool.        *)
(***************************************************************************)
NextPool ==
    \/ \E c \in PoolConns, accept \in PoolAccepts, z \in GzIds : PoolEnter(c, accept, z)
    \/ \E c \in PoolConns, b \in PoolPayloads :
          /\ pooled.conn[c].pc = "handler" /\ pooled.conn[c].nops < PoolOps
          /\ PoolWrite(c, b)
    \/ \E c \in PoolConns :
          /\ pooled.conn[c].pc = "handler" /\ pooled.conn[c].nops < PoolOps
          /\ PoolFlush(c)
    \/ \E c \in PoolConns : PoolReturn(c)
    \/ \E c \in PoolConns : PoolNextRequest(c)

\* the process NewApp wired: the KeyClients of getClients
InitPool == Init /\ \A k \in Keys : mapNil[k]

SpecPool == InitPool /\ [][NextPool]_vars

(***************************************************************************)
(* Two streams relayed concurrently.  The upstream of each stream delivers *)
(* at most MaxChunks chunks and then io.EOF or an error; the Go scheduler  *)
(* runs every goroutine that can take a step (weak fairness on the steps   *)
(* of each goroutine).                                                     *)
(***************************************************************************)
RelayStep(t) ==
    \/ \E ch \in CountedChunks :
          /\ relay[t].pc = "recv" /\ relay[t].recvd < MaxChunks
          /\ RelayRecv(t, ch)
    \/ UsageMutexLock(t)
    \/ IncrementUsageLoad(t)
    \/ IncrementUsageStore(t)
    \/ UsageMutexUnlock(t)
    \/ RelayCounted(t)
    \/ RelayWrite(t)
    \/ RelayEOF(t)
    \/ RelayError(t)

NextLive ==
    \/ \E t \in Writers, k \in Keys : RelayOpen(t, k)
    \/ \E t \in Writers : RelayStep(t)

SpecLive == Init /\ [][NextLive]_vars /\ \A t \in Writers : WF_vars(RelayStep(t))

(***************************************************************************)
(* Properties of the selector.                                             *)
(***************************************************************************)
\* the weighted (effective) usage of the pair (entry i of models, credential k)
Effective(models, i, k) == Usage(k, models[i].Name) * models[i].Weight

\* what getClientForGroup returns now for the group g, with the group's
\* entries and the pairs it expands to
Resolved(g) ==
    [sel |-> getClientForGroup(modelUsage, g), models |-> GroupModels(g),
     pairs |-> EnumPairs(GroupModels(g), 1)]

\* the groups that expand to at least one (entry, credential) pair
Routable == { g \in GroupNames : Len(EnumPairs(GroupModels(g), 1)) > 0 }

\* C1: in every reachable state of the usage maps and for every group, the
\* pair getClient returns has the least weighted usage usage * weight among
\* all (entry, credential) pairs of the group.
C1_SelectionMinimality ==
    \A g \in Routable :
        LET rs == Resolved(g) IN
        \A i \in 1..Len(rs.pairs) :
            Effective(rs.models, rs.sel.entry, rs.sel.key)
                <= Effective(rs.models, rs.pairs[i].entry, rs.pairs[i].key)

\* the position in enumeration order of the first pair of least weighted usage
FirstWeightedMin(models, pairs) ==
    CHOOSE i \in 1..Len(pairs) :
        /\ \A j \in 1..Len(pairs) :
              Effective(models, pairs[i].entry, pairs[i].key)
                  <= Effective(models, pairs[j].entry, pairs[j].key)
        /\ \A j \in 1..(i - 1) :
              Effective(models, pairs[j].entry, pairs[j].key)
                  > Effective(models, pairs[i].entry, pairs[i].key)

\* C2: when several pairs share the least weighted usage, getClient returns
\* the first of them in enumeration order (entries in declared order, the
\* credentials of one entry in declared order).
C2_TieBreakFirst ==
    \A g \in Routable :
        LET rs == Resolved(g)
            i  == FirstWeightedMin(rs.models, rs.pairs)
        IN  /\ rs.sel.entry = rs.pairs[i].entry
            /\ rs.sel.key = rs.pairs[i].key

\* C3: a group with an entry of weight 0 always resolves to the provider and
\* model of an entry of weight 0.
C3_WeightZeroPreferred ==
    \A g \in Routable :
        LET rs == Resolved(g) IN
        (\E i \in 1..Len(rs.models) : rs.models[i].Weight = 0)
            => \E i \in 1..Len(rs.models) :
                  /\ rs.models[i].Weight = 0
                  /\ rs.sel.provider = rs.models[i].Provider
                  /\ rs.sel.model = rs.models[i].Name

(***************************************************************************)
(* Properties of the usage accounting.                                     *)
(***************************************************************************)
\* C4: a stream whose usage reports all say T, one of them on a finish chunk,
\* has added exactly T to the usage maps.
C4_StreamIdempotence ==
    \A r \in Reqs :
        (req[r].stream /\ req[r].finUsage /\ req[r].repT >= 0)
            => req[r].contrib = req[r].repT

\* the same for credentials whose map NewKeyClient made
StreamIdempotenceMapMade ==
    \A r \in Reqs :
        (req[r].stream /\ req[r].finUsage /\ req[r].repT >= 0 /\ ~mapNil[req[r].key])
            => req[r].contrib = req[r].repT

\* the buffered request r completes successfully in this step
Completes(r) ==
    /\ req[r].pc = "calling"
    /\ req'[r].pc = "done"
    /\ req'[r].end = "ok"

\* C5: when a buffered request completes successfully, the counter of the
\* (credential, upstream model) pair getClientForGroup selected for it grows
\* by exactly the total_tokens of the upstream response, and no other
\* counter changes (none under the group name the client sent).
C5_Attribution ==
    [][ \A r \in Reqs :
          Completes(r) =>
            /\ req[r].model \in { GroupModels(req[r].group)[i].Name
                                  : i \in 1..Len(GroupModels(req[r].group)) }
            /\ req[r].model # req[r].group
            /\ modelUsage' = [modelUsage EXCEPT ![req[r].key][req[r].model] =
                                                   @ + req'[r].tokens] ]_vars

C5_Witness ==
    \E r \in Reqs :
        /\ req[r].end = "ok" /\ req[r].status = 200
        /\ req[r].group = "g2" /\ req[r].model = "mb" /\ req[r].key = "k2"
        /\ req[r].tokens = MaxTok
        /\ Usage("k2", "mb") = MaxTok

\* C6: no counter of the usage maps ever decreases.
C6_UsageMonotonic ==
    [][ \A k \in Keys, n \in Names : modelUsage'[k][n] >= modelUsage[k][n] ]_vars

\* C7: in the serial scenario the two credentials of the provider never
\* differ by more than the total_tokens of one request.
C7_SerialBalance ==
    /\ Usage("k1", "ma") - Usage("k2", "ma") <= SerialTok
    /\ Usage("k2", "ma") - Usage("k1", "ma") <= SerialTok

\* all MaxSerial requests of the scenario have been served
C7_Witness ==
    /\ Served = MaxSerial * SerialTok
    /\ Usage("k1", "ma") = Usage("k2", "ma")
    /\ req["r1"].end = "ok"

(***************************************************************************)
(* Properties of the streaming relay.                                      *)
(***************************************************************************)
CountDone(events) == Cardinality({ i \in 1..Len(events) : events[i] = DONE })

\* C8: a response never holds more than one [DONE] event, a [DONE] event is
\* the last event, and a response whose upstream reached end-of-stream holds
\* exactly one.
C8_SSETermination ==
    \A r \in Reqs :
        LET ev == req[r].events IN
        /\ CountDone(ev) <= 1
        /\ \A i \in 1..Len(ev) : ev[i] = DONE => i = Len(ev)
        /\ req[r].end = "eof" => (CountDone(ev) = 1 /\ ev[Len(ev)] = DONE)

C8_Witness ==
    \E r \in Reqs :
        /\ req[r].end = "eof"
        /\ req[r].events = <<1, 2, DONE>>

\* C9: once the stream is open it is closed exactly once when the handler has
\* ended, however it ended, and not at all while the handler is still
\* receiving; a request that opened no stream closes none.
C9_ClosedExactlyOnce ==
    \A r \in Reqs :
        /\ req[r].pc = "relaying" => (req[r].opened /\ req[r].closed = 0)
        /\ (req[r].pc = "done" /\ req[r].opened) => req[r].closed = 1
        /\ ~req[r].opened => req[r].closed = 0

C9_Witness ==
    \E r \in Reqs :
        /\ req[r].opened /\ req[r].end = "marshal"
        /\ req[r].recvd = 2 /\ req[r].closed = 1

(***************************************************************************)
(* Properties of the gateway.                                              *)
(***************************************************************************)
\* the handler takes the request in slot r in this step
Handled(r) == req[r].pc = "idle" /\ req'[r].pc # "idle"

\* C10: a request that is not OPTIONS and whose Authorization header is not
\* exactly "Bearer " + token gets 401, resolves no group, starts no upstream
\* call and changes no counter; with the exact header it is not refused, and
\* a POST reaches handleChatCompletions.
C10_AuthGate ==
    [][ \A r \in Reqs :
          (Handled(r) /\ req'[r].path = PathCompletions
                      /\ req'[r].method # "OPTIONS") =>
            IF req'[r].auth # Bearer \o CfgAPIKey
            THEN /\ req'[r].pc = "done" /\ req'[r].status = 401
                 /\ req'[r].resolved = 0 /\ req'[r].calls = 0
                 /\ modelUsage' = modelUsage
            ELSE /\ req'[r].status # 401
                 /\ req'[r].method = "POST" =>
                       req'[r].end \in {"", "badjson", "nomodel", "badrequest",
                                        "nogroup", "panic"} ]_vars

C10_Witness ==
    \E r \in Reqs :
        /\ req[r].path = PathCompletions /\ req[r].method = "POST" /\ req[r].auth = Bearer \o <<"t", "x">>
        /\ req[r].status = 401 /\ req[r].pc = "done"
        /\ req[r].resolved = 0 /\ req[r].calls = 0

(***************************************************************************)
(* Properties of the usage map under direct, concurrent calls.             *)
(***************************************************************************)
\* C12: a call IncrementUsage(model, tokens) with tokens < 0 fails and leaves
\* the counter unchanged: its write changes no counter and the call does not
\* return normally.
C12_NegativeRefused ==
    [][ \A t \in Writers :
          (thr[t].pc = "store" /\ thr'[t].pc = "unlock" /\ thr[t].tokens < 0) =>
            /\ modelUsage' = modelUsage
            /\ thr'[t].panicked ]_vars

\* C13: Usage is 0 for a pair never incremented; an IncrementUsage call
\* succeeds, also the first one of a pair; every counter is the sum of the
\* tokens of the calls made on exactly that pair (so a call changes no other
\* pair), and that is what Usage returns.
C13_LedgerSum ==
    /\ \A t \in Writers : ~thr[t].panicked
    /\ \A k \in Keys, n \in Names : Usage(k, n) = hist.asked[k][n]
    /\ \A t \in Readers :
          (thr[t].pc \in {"runlock", "done"} /\ hist.held[thr[t].key][thr[t].model] = {0})
              => thr[t].ret = 0

\* the same for a KeyClient whose map NewKeyClient made
LedgerSumMapMade ==
    \A k \in Keys :
        ~mapNil[k] =>
            /\ \A t \in Writers : thr[t].key = k => ~thr[t].panicked
            /\ \A n \in Names : Usage(k, n) = hist.asked[k][n]

\* C14: no update is lost (every counter is the sum of the tokens of the
\* IncrementUsage calls that have written it, whatever the interleaving),
\* every value Usage returns is one the pair has held, and nobody reads or
\* writes the map while another goroutine is between its read and its write.
C14_AtomicIncrements ==
    /\ \A k \in Keys, n \in Names : Usage(k, n) = hist.applied[k][n]
    /\ \A t \in Readers :
          thr[t].pc \in {"runlock", "done"} =>
              thr[t].ret \in hist.held[thr[t].key][thr[t].model]
    /\ \A k \in Keys :
          usageMutex[k].w # NoThread =>
              /\ usageMutex[k].r = {}
              /\ \A t \in Threads :
                    (thr[t].key = k /\ thr[t].pc \in {"load", "store", "unlock", "read", "runlock"})
                        => t = usageMutex[k].w

\* both writers have incremented the same pair, the second after it waited
\* for the lock the first one held, and the reader has read the sum
C14_Witness ==
    /\ thr["w1"].pc = "done" /\ thr["w2"].pc = "done" /\ thr["rd"].pc = "done"
    /\ thr["w1"].key = "k1" /\ thr["w1"].model = "ma" /\ thr["w1"].tokens = 1
    /\ thr["w2"].key = "k1" /\ thr["w2"].model = "ma" /\ thr["w2"].tokens = MaxTok
    /\ thr["w2"].tmp = 1
    /\ thr["rd"].key = "k1" /\ thr["rd"].model = "ma" /\ thr["rd"].ret = 1
    /\ Usage("k1", "ma") = 1 + MaxTok

\* C11: a request that reaches getClientForGroup with a name no configured
\* group has gets the error that names the group: the handler answers 500
\* with that text, starts no upstream call and changes no counter.
C11_UnknownGroup ==
    [][ \A r \in Reqs :
          (Handled(r) /\ req'[r].resolved = 1 /\ req'[r].group \notin GroupNames) =>
            LET sel == getClientForGroup(modelUsage, req'[r].group) IN
            /\ sel.err /\ sel.key = NoKey
            /\ sel.errText[Len(sel.errText)] = req'[r].group
            /\ req'[r].pc = "done" /\ req'[r].status = 500
            /\ req'[r].body = ErrPrefix(IF req'[r].stream THEN "opening" ELSE "calling")
                                 \o sel.errText
            /\ req'[r].calls = 0 /\ ~req'[r].opened
            /\ modelUsage' = modelUsage ]_vars

C11_Witness ==
    \E r \in Reqs :
        /\ req[r].group = "nogroup" /\ req[r].resolved = 1 /\ req[r].stream
        /\ req[r].status = 500 /\ req[r].calls = 0
        /\ req[r].body = <<"Error handling streaming request: ",
                           "no models found for group: ", "nogroup">>
        /\ Usage("k1", "ma") > 0

\* the `data:` events of a response, in order ([DONE] left out)
RECURSIVE DataEvents(_)
DataEvents(events) ==
    IF events = <<>> THEN <<>>
    ELSE IF Head(events) = DONE THEN DataEvents(Tail(events))
    ELSE <<Head(events)>> \o DataEvents(Tail(events))

\* the chunks the relay loop went on to write: all the chunks received, but
\* the last one when its encoding failed or Recv panicked on it (the handler
\* has returned then)
Relayed(q) == IF q.end \in {"marshal", "panic"} THEN q.recvd - 1 ELSE q.recvd

C16_ClosedErr ==
    [][ \A r \in Reqs :
          (req[r].pc = "relaying" /\ req'[r].end = "recverr") =>
            /\ req'[r].pc = "done"
            /\ req'[r].events = req[r].events
            /\ CountDone(req'[r].events) = 0 ]_vars

C16_Witness ==
    \E r \in Reqs :
        /\ req[r].end = "recverr" /\ req[r].pc = "done"
        /\ req[r].events = <<1, 2>>

\* C17: when the upstream call of a buffered request fails, the handler
\* answers 500 with the upstream error text, no counter changes, and the
\* request made exactly one upstream call, on the pair selected for it.
C17_UpstreamFailure ==
    [][ \A r \in Reqs :
          (req[r].pc = "calling" /\ req'[r].end = "upstream") =>
            /\ req'[r].pc = "done" /\ req'[r].status = 500
            /\ req'[r].body = <<"Error handling request: ">> \o UpstreamErrText
            /\ req'[r].calls = 1 /\ req'[r].resolved = 1
            /\ req'[r].key = req[r].key /\ req'[r].model = req[r].model
            /\ modelUsage' = modelUsage ]_vars

C17_Witness ==
    \E r \in Reqs :
        /\ ~req[r].stream /\ req[r].end = "upstream" /\ req[r].status = 500
        /\ req[r].calls = 1 /\ req[r].group = "g2" /\ req[r].key = "k2"

\* C18: an authenticated POST whose body is not valid JSON, or whose `model`
\* is missing or not a string, is answered with 400; no group is resolved and
\* no upstream call is made.
C18_BadRequest400 ==
    \A r \in Reqs :
        req[r].end \in {"badjson", "nomodel"} =>
            /\ req[r].status = 400
            /\ req[r].resolved = 0 /\ req[r].calls = 0

\* C19: an OPTIONS request to /v1/chat/completions, /v1/models or /health is
\* answered with 204 whatever its Authorization header, and starts no
\* upstream call.
C19_OptionsNoAuth ==
    \A r \in Reqs :
        (req[r].pc = "done" /\ req[r].method = "OPTIONS"
           /\ req[r].path \in {PathCompletions, PathModels, PathHealth}) =>
            /\ req[r].status = 204
            /\ req[r].calls = 0

\* C20: a request to /v1/models is answered with the list of groups only
\* when its Authorization header is exactly "Bearer " + token.
C20_ModelsGuarded ==
    \A r \in Reqs :
        (req[r].path = PathModels /\ req[r].body = <<"list">>) =>
            req[r].auth = Bearer \o CfgAPIKey

(***************************************************************************)
(* Properties of the compression layer.                                    *)
(***************************************************************************)
\* the encoding the specification selects for an Accept-Encoding header
PreferredEncoding(accept) ==
    IF Contains(accept, "br") THEN "br"
    ELSE IF Contains(accept, "gzip") THEN "gzip" ELSE ""

\* C21: the response encoding is chosen from Accept-Encoding alone: br
\* whenever the header names br, wherever it stands relative to gzip;
\* otherwise gzip when it names gzip; otherwise no Content-Encoding and the
\* handler writes to the response unwrapped.
C21_EncodingChoice ==
    gzw.pc # "idle" =>
        /\ gzw.enc = PreferredEncoding(gzw.accept)
        /\ (PreferredEncoding(gzw.accept) = "" => ~gzw.wrapped)

\* the part of C21 the code does implement: gzip exactly when named
EncodingChoiceGzipOnly ==
    gzw.pc # "idle" =>
        /\ gzw.enc = (IF Contains(gzw.accept, "gzip") THEN "gzip" ELSE "")
        /\ gzw.wrapped = Contains(gzw.accept, "gzip")

UnknownProviderRef(cfg) ==
    \E i \in 1..Len(cfg.Groups) : \E j \in 1..Len(cfg.Groups[i].Models) :
        \A p \in 1..Len(cfg.Providers) :
            cfg.Providers[p].Name # cfg.Groups[i].Models[j].Provider

EmptyGroup(cfg) == \E i \in 1..Len(cfg.Groups) : cfg.Groups[i].Models = <<>>

APIKeyUnset(cfg) == cfg.APIKey = <<>>

\* C24: the process never serves a configuration in which a group entry
\* names an undeclared provider, a group has no entries, or api_key is unset.
C24_StartupValidation ==
    boot.pc = "serving" =>
        /\ ~UnknownProviderRef(App.Config)
        /\ ~EmptyGroup(App.Config)
        /\ ~APIKeyUnset(App.Config)

\* what start-up does reject: a file that cannot be loaded
StartupRejectsUnreadable ==
    /\ boot.pc = "serving" => boot.file.readable
    /\ boot.pc = "panicked" => ~boot.file.readable

(***************************************************************************)
(* Properties of the forwarded request.                                    *)
(***************************************************************************)
\* C25: the request sent upstream differs from the request the client sent
\* in the model field only, which holds the upstream model name of the
\* selected entry and never the group name; every other field is forwarded
\* unchanged, for buffered and for streaming requests.
C25_ForwardFrame ==
    \A r \in Reqs :
        req[r].calls > 0 =>
            /\ req[r].fwd.model = req[r].model
            /\ req[r].fwd.model \notin GroupNames
            /\ req[r].fwd = [req[r].sent EXCEPT !.model = req[r].model]

\* what holds of the code: the fields openai.ChatCompletionRequest declares
\* are forwarded unchanged and the model is the selected entry's
ForwardTypedFrame ==
    \A r \in Reqs :
        req[r].calls > 0 =>
            /\ req[r].fwd.model = req[r].model
            /\ req[r].fwd.model \notin GroupNames
            /\ req[r].fwd.messages = req[r].sent.messages
            /\ req[r].fwd.stream = req[r].sent.stream
            /\ req[r].sent.model = req[r].group

(***************************************************************************)
(* Properties of the streaming relay under write failures.                 *)
(***************************************************************************)
\* C26: once a write to the client's response writer has failed the handler
\* stops relaying: it calls Recv no more, closes the upstream stream and
\* returns.
C26_StopOnWriteError ==
    \A r \in Reqs :
        req[r].wfail =>
            /\ req[r].afterFail = 0
            /\ req[r].pc = "done"
            /\ req[r].closed = 1

\* what holds of the code: the stream is closed once when the handler does
\* return, whether or not a write failed
ClosedOnceAfterWriteError ==
    \A r \in Reqs : (req[r].wfail /\ req[r].pc = "done") => req[r].closed = 1

(***************************************************************************)
(* Properties of ChatCompletionStream.Recv.                                *)
(***************************************************************************)
\* a finish chunk, in the words of the specification
FinishChunk(ch) ==
    \/ ch.nChoices = 0
    \/ ch.finishReason # ""
    \/ (ch.content = "" /\ ch.reasoning = "")

MapsMade == \A k \in Keys : ~mapNil[k]

\* a step that is one call of Recv
RecvStep == wrapper.open /\ wrapper'.open /\ wrapper'.n = wrapper.n + 1

\* C27: Recv takes a chunk for a finish chunk exactly when its choices are
\* empty, or its first choice has a finish_reason, or the content and the
\* reasoning_content of its first choice's delta are both empty; a chunk
\* with empty choices is classified without failing and is returned.
C27_Classification ==
    (wrapper.open /\ wrapper.last.kind = "chunk") =>
        /\ wrapper.last.finish = FinishChunk(wrapper.last.ch)
        /\ (wrapper.last.ch.nChoices = 0 => wrapper.last.finish /\ wrapper.last.returned)

\* what holds of the code: the classification itself, which never reads a
\* choice that is not there, and all of C27 when the usage map was made
ClassificationAlone ==
    (wrapper.open /\ wrapper.last.kind = "chunk") =>
        /\ wrapper.last.finish = FinishChunk(wrapper.last.ch)
        /\ wrapper.last.err # "index"
        /\ (MapsMade /\ wrapper.last.ch.nChoices = 0 => wrapper.last.returned)

\* C28: a call of Recv that gets a chunk which is not a finish chunk, even
\* one carrying usage, or a finish chunk without usage, changes neither the
\* usage maps nor the wrapper's last reported usage.
C28_NoCountWithoutFinishUsage ==
    [][ ( /\ RecvStep
          /\ wrapper'.last.kind = "chunk"
          /\ (~FinishChunk(wrapper'.last.ch) \/ ~wrapper'.last.ch.hasUsage) )
        => (modelUsage' = modelUsage /\ wrapper'.usage = wrapper.usage) ]_vars

C28_Witness ==
    /\ wrapper.open
    /\ wrapper.last.kind = "chunk" /\ wrapper.last.returned
    /\ ~FinishChunk(wrapper.last.ch)
    /\ wrapper.last.ch.hasUsage /\ wrapper.last.ch.total > wrapper.usage

\* C29: over the finish chunks of a stream that carry usage, whatever the
\* order of their totals, the last reported usage after each chunk is the
\* largest total so far (so it never decreases), and what the stream has
\* added to the usage map equals the last reported usage.
C29_UsageTracksMax ==
    wrapper.open =>
        /\ wrapper.usage = wrapper.maxT
        /\ Usage(wrapper.keyClient, wrapper.model) - wrapper.base = wrapper.usage

\* C29 holds for a KeyClient whose usage map was made
UsageTracksMaxMapMade == MapsMade => C29_UsageTracksMax

\* C30: a call of Recv to which the upstream stream returns an error, io.EOF
\* included, changes neither the usage maps nor the last reported usage:
\* the tokens counted before stay.
C30_ErrorNoChange ==
    [][ (RecvStep /\ wrapper'.last.kind = "error")
        => (modelUsage' = modelUsage /\ wrapper'.usage = wrapper.usage) ]_vars

C30_Witness ==
    /\ wrapper.open
    /\ wrapper.last.kind = "error" /\ wrapper.last.err = "EOF"
    /\ wrapper.usage > 0
    /\ Usage(wrapper.keyClient, wrapper.model) = wrapper.base + wrapper.usage

(***************************************************************************)
(* Properties of the streaming sniff.                                      *)
(***************************************************************************)
\* C31: the sniff is transparent to the read after it: at every moment the
\* bytes already read, the peeked bytes still to be served and the rest of
\* the body make the original body, in order, and at the end of the body the
\* bytes read are exactly the original body, whether it is empty, shorter
\* than the peek buffer, as long, or longer.
C31_SniffTransparent ==
    sniff.pc # "idle" =>
        /\ sniff.got \o sniff.peeked \o sniff.body = sniff.orig
        /\ sniff.pc = "eof" => sniff.got = sniff.orig

\* a body longer than the peek buffer was sniffed with a full buffer, found
\* to be streaming, and read to its end
C31_Witness ==
    /\ sniff.pc = "eof"
    /\ sniff.n = PeekSize
    /\ Len(sniff.orig) > PeekSize
    /\ sniff.isStreaming
    /\ sniff.got = sniff.orig

(***************************************************************************)
(* Properties of the order of a streaming request.                         *)
(***************************************************************************)
\* the request q is where the order Authenticated, GroupResolved,
\* UpstreamOpen, Relaying allows it to be
StreamOrder(q) ==
    /\ q.resolved > 0 => ConstantTimeCompare(q.auth, Bearer \o CfgAPIKey) = 1
    /\ q.calls > 0 => q.resolved > 0 /\ q.key # NoKey
    /\ q.opened => q.calls > 0
    /\ (q.sse \/ q.events # <<>> \/ q.pc = "relaying") => q.opened

\* the step ends the streaming request r on an error returned by
\* getClientForGroup or by KeyClient.ChatCompletionStream
OpenFails(r) ==
    /\ req[r].pc \in {"idle", "opening"}
    /\ req'[r].pc = "done"
    /\ req'[r].stream
    /\ req'[r].end \in {"nogroup", "upstream"}

\* C32: a streaming request is authenticated, then its group is resolved,
\* then the upstream stream is opened, then the relay starts: no SSE header
\* and no event is written before ChatCompletionStream has returned a stream;
\* and when getClientForGroup or ChatCompletionStream returns an error the
\* client gets a 500, no SSE header, no event and no [DONE], and no usage
\* map changes.
C32_StreamOrder ==
    [][\A r \in Reqs :
          /\ StreamOrder(req'[r])
          /\ OpenFails(r) =>
                /\ req'[r].status = 500
                /\ ~req'[r].sse
                /\ req'[r].events = <<>>
                /\ req'[r].closed = 0
                /\ modelUsage' = modelUsage]_vars

\* a streaming request of a known group ended on a failed
\* ChatCompletionStream
C32_Witness ==
    \E r \in Reqs :
        /\ req[r].pc = "done" /\ req[r].stream
        /\ req[r].end = "upstream"
        /\ req[r].calls = 1
        /\ req[r].status = 500
        /\ ~req[r].sse /\ req[r].events = <<>>

(***************************************************************************)
(* Properties of the triple getClientForGroup returns.                     *)
(***************************************************************************)
\* the triple returned for the group g names an entry of g, that entry's
\* provider, and a KeyClient of that provider
UsableTriple(g) ==
    LET sel == getClientForGroup(modelUsage, g)
        models == GroupModels(g)
    IN  /\ \E i \in 1..Len(models) :
              models[i].Name = sel.model /\ models[i].Provider = sel.provider
        /\ sel.key # NoKey
        /\ sel.provider \in DOMAIN getClients
        /\ sel.key \in SeqRange(getClients[sel.provider])

\* C35: whenever getClientForGroup returns without error, the model it
\* returns is the name of an entry of the requested group, the provider is
\* that entry's provider and the credential is a non-nil KeyClient of that
\* provider, also for a group whose entries name a provider that has no
\* client.
C35_ResolveUsable ==
    \A g \in GroupNames :
        ~getClientForGroup(modelUsage, g).err => UsableTriple(g)

\* the triple is usable for every group that has at least one entry whose
\* provider is registered with a key
ResolveUsableRoutable ==
    \A g \in Routable : ~getClientForGroup(modelUsage, g).err /\ UsableTriple(g)

\* a request for a group that names no registered provider was resolved
\* without error and ended in the nil dereference
ResolveNilKeyClient ==
    \E r \in Reqs :
        /\ req[r].pc = "done" /\ req[r].resolved = 1
        /\ req[r].end = "panic" /\ req[r].key = NoKey
        /\ req[r].calls = 0

(***************************************************************************)
(* Properties of getClientForGroup as a read.                              *)
(***************************************************************************)
\* the step is a call of getClientForGroup by the request r
Resolves(r) == req'[r].resolved = req[r].resolved + 1

\* the provider, model and KeyClient of a result of getClientForGroup
Triple(sel) == <<sel.provider, sel.model, sel.key>>

RoutedTo(q, k, model) == q.key = k /\ q.fwdModel = model

\* what the request q accounts for: the total_tokens of the response
\* KeyClient.ChatCompletion returned, or ChatCompletionStream.usage of the
\* stream it opened
Credit(q) ==
    IF q.stream THEN q.usage
    ELSE IF q.pc = "done" /\ q.end \in {"ok", "marshal"} THEN q.tokens
    ELSE 0

RECURSIVE SumCredit(_, _, _)
SumCredit(S, k, model) ==
    IF S = {} THEN 0
    ELSE LET r == CHOOSE x \in S : TRUE
         IN  (IF RoutedTo(req[r], k, model) THEN Credit(req[r]) ELSE 0)
             + SumCredit(S \ {r}, k, model)

\* C38: in every reachable state and for every (credential, model) pair, the
\* counter of the pair is the sum of the total_tokens of the buffered
\* requests routed to the pair whose upstream call has returned a response,
\* plus the sum of ChatCompletionStream.usage over the streams opened on the
\* pair, open or closed, whatever the interleaving of the requests.
C38_LedgerConservation ==
    \A k \in Keys, n \in Names : Usage(k, n) = SumCredit(DOMAIN req, k, n)

\* a buffered request and a stream were routed to the same pair while both
\* were in flight, and the counter holds the tokens of both
C38_Witness ==
    \E r, s \in DOMAIN req :
        /\ r # s
        /\ RoutedTo(req[s], req[r].key, req[r].fwdModel)
        /\ ~req[r].stream /\ req[r].end = "ok" /\ req[r].tokens = MaxTok
        /\ req[s].stream /\ req[s].usage = MaxTok
        /\ Usage(req[r].key, req[r].fwdModel) = 2 * MaxTok

(***************************************************************************)
(* Properties of the moment at which tokens are counted.                   *)
(***************************************************************************)
\* the step returns an upstream response, or a chunk of an upstream stream,
\* to the request r
Reports(r) ==
    /\ req[r].pc \in {"calling", "relaying"}
    /\ req'[r] # req[r]

\* no request of the burst has added tokens to a usage map
NoneReported == \A r \in DOMAIN req : req[r].contrib = 0

\* the request q holds the triple getClientForGroup returned for its group
Selected(q) == q.resolved > 0 /\ q.end # "nogroup"

\* C37: tokens enter the usage maps only when an upstream response, or a
\* chunk of an upstream stream, is received, never when getClientForGroup
\* selects: a step that resolves a group changes no usage map and every
\* change of a usage map is made by a step that receives from the upstream;
\* therefore, as long as no request of the burst has reported usage, all
\* the requests resolved for the same group hold the same KeyClient and the
\* same upstream model.
C37_CountedOnReceipt ==
    [][/\ \A r \in DOMAIN req : Resolves(r) => modelUsage' = modelUsage
       /\ modelUsage' # modelUsage => \E r \in DOMAIN req : Reports(r)
       /\ NoneReported' =>
             \A r, s \in DOMAIN req :
                (Selected(req'[r]) /\ Selected(req'[s]) /\ req'[r].group = req'[s].group)
                    => /\ req'[r].key = req'[s].key
                       /\ req'[r].model = req'[s].model]_vars

\* two requests for the same group are in flight on the second key, which
\* had the least usage when the burst began, and neither has reported
C37_Witness ==
    \E r, s \in DOMAIN req :
        /\ r # s
        /\ req[r].pc \in {"calling", "relaying"} /\ req[s].pc \in {"calling", "relaying"}
        /\ req[r].group = "g2" /\ req[s].group = "g2"
        /\ req[r].key = "k2" /\ req[s].key = "k2"
        /\ req[r].model = "mb" /\ req[s].model = "mb"
        /\ NoneReported

(***************************************************************************)
(* Properties of the compressor pool.                                      *)
(***************************************************************************)
\* the connection c is in its handler behind the gzip wrapper
Holds(c) == pooled.conn[c].pc = "handler" /\ pooled.conn[c].wrapped

HoldsLock(t) == \E k \in Keys : usageMutex[k].w = t

\* the stream of t has ended (ClosedOK at io.EOF, ClosedErr otherwise) and
\* the upstream stream is closed
Terminal(t) == relay[t].pc = "done" /\ relay[t].closed

\* C33: every streaming request whose upstream ends with end-of-stream or
\* an error reaches a terminal state with the upstream stream closed, and
\* no request waits on a lock held across another request's upstream call
\* or relay: a goroutine holds the usage lock only between Lock and the
\* deferred Unlock of IncrementUsage, never while it is blocked in
\* stream.Recv, writing to its client, or after its handler has returned.
C33_StreamsTerminate ==
    /\ [](\A t \in Writers :
             HoldsLock(t) => /\ relay[t].pc = "count"
                             /\ thr[t].pc \in {"load", "store", "unlock"})
    /\ \A t \in Writers : (relay[t].pc # "idle") ~> Terminal(t)

\* two streams on the same KeyClient have both counted tokens and ended, one
\* at io.EOF and one on an error, both closed
C33_Witness ==
    /\ Terminal("w1") /\ Terminal("w2")
    /\ relay["w1"].key = relay["w2"].key
    /\ relay["w1"].usage = MaxTok /\ relay["w2"].usage = MaxTok
    /\ relay["w1"].end = "eof" /\ relay["w2"].end = "error"

====
